---- MODULE Spec2Model ----
(***************************************************************************)
(* Verification model of the Instagram profile embedding / hybrid search   *)
(* repository: weight analyzer, hybrid vector fusion, hybrid search,       *)
(* vector-index search and the ingestion pipeline.                         *)
(*                                                                         *)
(* Conventions.  Weights are Python floats in the source; here a weight is *)
(* an integer number of thousandths (0.9 is 900).  Text is a sequence of   *)
(* one-character strings, so that `in` (substring test) and lower() are    *)
(* computed character by character, as the source computes them.           *)
(***************************************************************************)
EXTENDS Integers, Sequences, FiniteSets, TLC

VARIABLES
    \* --- WeightAnalyzer.get_weights ---
    wa_query,        \* the query passed to get_weights
    wa_hasKey,       \* self.api_key and self.model are set
    wa_called,       \* get_weights has returned
    wa_response,     \* what model.generate_content did on this call
    wa_llmCalls,     \* number of generate_content calls issued
    wa_fallbackRuns, \* number of get_fallback_weights runs
    wa_path,         \* the return statement that produced the result
    wa_result,       \* the returned weight pair
    \* --- HybridSearchEngine._create_hybrid_vector ---
    fz_image,        \* image_embedding
    fz_text,         \* text_embedding
    fz_weights,      \* weights
    fz_done,         \* the call has ended
    fz_out,          \* how it ended: the vector returned or the error raised
    \* --- GeminiSearchInterface.execute_hybrid_search / HybridSearchEngine.search ---
    hs_pc,              \* the statement the request is at
    hs_text_query,      \* text_query
    hs_hasKey,          \* the engine's WeightAnalyzer has an API key and model
    hs_indexUp,         \* the vector index answers requests
    hs_head,            \* what the HEAD request of validate_image_url met
    hs_fetch,           \* what get_embedding_from_url met
    hs_weights,         \* weights (Step 1)
    hs_image_embedding, \* image_embedding (Step 2)
    hs_text_embedding,  \* text_embedding (Step 3)
    hs_hybrid_vector,   \* hybrid_vector (Step 4)
    hs_steps,           \* the steps executed so far, in order
    hs_search,          \* how HybridSearchEngine.search ended
    hs_out,             \* the string execute_hybrid_search returned
    \* --- QdrantSearcher.search ---
    qs_points,          \* the points of the collection, each with its score for the query
    qs_score_threshold, \* self.score_threshold
    qs_filters,         \* filters
    qs_offset,          \* offset
    qs_limit,           \* limit
    qs_done,            \* the call has ended
    qs_out,             \* how it ended: the results returned or the error raised
    \* --- InstagramEmbeddingPipeline.process_profile over QdrantManager ---
    ig_points,          \* the collection: point id -> None or [vector, payload]
    ig_pc,              \* per worker: the statement process_profile is at
    ig_profile,         \* per worker: the profile being processed
    ig_skip,            \* per worker: skip_existing
    ig_embedding,       \* per worker: embeddings.get('combined')
    ig_result,          \* per worker: what process_profile returned
    ig_before,          \* per worker: the stored point when the run started
    ig_upserted,        \* per worker: the run issued client.upsert
    ig_runs,            \* runs started so far
    \* --- InstagramEmbeddingPipeline.process_batch ---
    bt_pc,              \* the statement process_batch is at
    bt_profiles,        \* profiles: the batch
    bt_skip,            \* skip_existing
    bt_i,               \* profiles of the batch the loop has taken
    bt_results,         \* results
    bt_outcomes,        \* what process_profile returned, call by call
    \* --- FollowerCountConverter.parse_follower_count ---
    fc_text,            \* text
    fc_done,            \* the call has ended
    fc_out,             \* how it ended: the value returned or the exception raised
    \* --- FollowerCountConverter.get_follower_category / get_category_range ---
    ct_count,           \* count
    ct_name,            \* category, the argument of get_category_range
    ct_done,            \* both calls have ended
    ct_category,        \* get_follower_category(count)
    ct_range,           \* get_category_range(get_follower_category(count))
    ct_named_range,     \* get_category_range(category)
    \* --- AccountTypeClassifier._check_rate_limits ---
    rl_time,                 \* time.time(), in seconds
    rl_day_start,            \* self.day_start
    rl_minute_start,         \* self.minute_start
    rl_requests_per_minute,  \* self.requests_per_minute
    rl_requests_per_day,     \* self.requests_per_day
    rl_last_request_time,    \* self.last_request_time
    rl_calls,                \* calls of _check_rate_limits so far
    rl_last,                 \* the latest call: what it met and how it ended
    rl_admitted,             \* the times at which calls passed the limiter
    rl_llm_calls,            \* calls of gemini_model.generate_content
    rl_result,               \* what the latest _classify_with_gemini returned
    \* --- WeightAnalyzer.get_fallback_weights called directly ---
    fb_query,           \* query
    fb_weights,         \* the returned weight pair
    \* --- WeightAnalyzer._parse_gemini_response called directly ---
    pr_response,        \* response, as tokens
    pr_weights,         \* the returned weight pair
    \* --- QdrantManager._initialize_client ---
    ic_max_retries,     \* max_retries
    ic_retry_delay,     \* retry_delay
    ic_api_key,         \* self.api_key
    ic_pc,              \* where the call is
    ic_attempt,         \* attempt, the loop variable
    ic_attempts,        \* connection attempts made
    ic_slept,           \* seconds spent in time.sleep
    ic_failed_last,     \* the latest attempt failed and none followed it
    ic_out,             \* the client returned or the exception raised
    \* --- InstagramEmbeddingPipeline.run_pipeline ---
    rp_rows,            \* rows of the profile table
    rp_batch_size,      \* batch_size
    rp_pc,              \* where the run is
    rp_total,           \* total, from get_total_profiles
    rp_processed,       \* processed
    rp_handed,          \* per row: how often it was handed to process_profile
    rp_fetch_failed,    \* a fetch_profiles call of this run met an exception
    rp_log,             \* the counts of the latest "Processed ..." line
    \* --- BatchClassifier.update_qdrant_profiles ---
    uq_updates,         \* updates: username -> account type
    uq_index,           \* the collection: username -> its point, if stored
    uq_done,            \* the call has returned
    uq_results,         \* the returned dict: username -> success
    uq_written,         \* usernames whose payload set_payload has written
    \* --- interactive search: search_profiles and handle_search ---
    sr_entry,           \* which of the two answers the request
    sr_query,           \* query
    sr_points,          \* the points of the collection
    sr_limit,           \* limit
    sr_done,            \* the request has been answered
    sr_failed,          \* embedding, index query or backend call failed
    sr_answer           \* the answer dict

wa_vars == <<wa_query, wa_hasKey, wa_called, wa_response, wa_llmCalls,
             wa_fallbackRuns, wa_path, wa_result>>

fz_vars == <<fz_image, fz_text, fz_weights, fz_done, fz_out>>

hs_vars == <<hs_pc, hs_text_query, hs_hasKey, hs_indexUp, hs_head, hs_fetch,
             hs_weights, hs_image_embedding, hs_text_embedding,
             hs_hybrid_vector, hs_steps, hs_search, hs_out>>

qs_vars == <<qs_points, qs_score_threshold, qs_filters, qs_offset, qs_limit,
             qs_done, qs_out>>

ig_vars == <<ig_points, ig_pc, ig_profile, ig_skip, ig_embedding, ig_result,
             ig_before, ig_upserted, ig_runs>>

bt_vars == <<bt_pc, bt_profiles, bt_skip, bt_i, bt_results, bt_outcomes>>

fc_vars == <<fc_text, fc_done, fc_out>>

ct_vars == <<ct_count, ct_name, ct_done, ct_category, ct_range, ct_named_range>>

rl_vars == <<rl_time, rl_day_start, rl_minute_start, rl_requests_per_minute,
             rl_requests_per_day, rl_last_request_time, rl_calls, rl_last,
             rl_admitted, rl_llm_calls, rl_result>>

fb_vars == <<fb_query, fb_weights>>

pr_vars == <<pr_response, pr_weights>>

ic_vars == <<ic_max_retries, ic_retry_delay, ic_api_key, ic_pc, ic_attempt, ic_attempts, ic_slept, ic_failed_last, ic_out>>

rp_vars == <<rp_rows, rp_batch_size, rp_pc, rp_total, rp_processed, rp_handed, rp_fetch_failed, rp_log>>

uq_vars == <<uq_updates, uq_index, uq_done, uq_results, uq_written>>

sr_vars == <<sr_entry, sr_query, sr_points, sr_limit, sr_done, sr_failed, sr_answer>>

vars == <<wa_vars, fz_vars, hs_vars, qs_vars, ig_vars, bt_vars, fc_vars, ct_vars,
          rl_vars, fb_vars, pr_vars, ic_vars, rp_vars, uq_vars, sr_vars>>

\* what each component leaves alone
wa_others == <<fz_vars, hs_vars, qs_vars, ig_vars, bt_vars, fc_vars, ct_vars, rl_vars, fb_vars, pr_vars, ic_vars, rp_vars, uq_vars, sr_vars>>

fz_others == <<wa_vars, hs_vars, qs_vars, ig_vars, bt_vars, fc_vars, ct_vars, rl_vars, fb_vars, pr_vars, ic_vars, rp_vars, uq_vars, sr_vars>>

hs_others == <<wa_vars, fz_vars, qs_vars, ig_vars, bt_vars, fc_vars, ct_vars, rl_vars, fb_vars, pr_vars, ic_vars, rp_vars, uq_vars, sr_vars>>

qs_others == <<wa_vars, fz_vars, hs_vars, ig_vars, bt_vars, fc_vars, ct_vars, rl_vars, fb_vars, pr_vars, ic_vars, rp_vars, uq_vars, sr_vars>>

ig_others == <<wa_vars, fz_vars, hs_vars, qs_vars, bt_vars, fc_vars, ct_vars, rl_vars, fb_vars, pr_vars, ic_vars, rp_vars, uq_vars, sr_vars>>

bt_others == <<wa_vars, fz_vars, hs_vars, qs_vars, fc_vars, ct_vars, rl_vars, fb_vars, pr_vars, ic_vars, rp_vars, uq_vars, sr_vars>>

fc_others == <<wa_vars, fz_vars, hs_vars, qs_vars, ig_vars, bt_vars, ct_vars, rl_vars, fb_vars, pr_vars, ic_vars, rp_vars, uq_vars, sr_vars>>

ct_others == <<wa_vars, fz_vars, hs_vars, qs_vars, ig_vars, bt_vars, fc_vars, rl_vars, fb_vars, pr_vars, ic_vars, rp_vars, uq_vars, sr_vars>>

rl_others == <<wa_vars, fz_vars, hs_vars, qs_vars, ig_vars, bt_vars, fc_vars, ct_vars, fb_vars, pr_vars, ic_vars, rp_vars, uq_vars, sr_vars>>

fb_others == <<wa_vars, fz_vars, hs_vars, qs_vars, ig_vars, bt_vars, fc_vars, ct_vars,
               rl_vars, pr_vars, ic_vars, rp_vars, uq_vars, sr_vars>>

pr_others == <<wa_vars, fz_vars, hs_vars, qs_vars, ig_vars, bt_vars, fc_vars, ct_vars,
               rl_vars, fb_vars, ic_vars, rp_vars, uq_vars, sr_vars>>

ic_others == <<wa_vars, fz_vars, hs_vars, qs_vars, ig_vars, bt_vars, fc_vars, ct_vars, rl_vars, fb_vars, pr_vars, rp_vars, uq_vars, sr_vars>>

rp_others == <<wa_vars, fz_vars, hs_vars, qs_vars, ig_vars, bt_vars, fc_vars, ct_vars, rl_vars, fb_vars, pr_vars, ic_vars, uq_vars, sr_vars>>

uq_others == <<wa_vars, fz_vars, hs_vars, qs_vars, ig_vars, bt_vars, fc_vars, ct_vars, rl_vars, fb_vars, pr_vars, ic_vars, rp_vars, sr_vars>>

sr_others == <<wa_vars, fz_vars, hs_vars, qs_vars, ig_vars, bt_vars, fc_vars, ct_vars, rl_vars, fb_vars, pr_vars, ic_vars, rp_vars, uq_vars>>

\* Python's None where a dict or an object is expected
None == [none |-> TRUE]

Abs(x) == IF x < 0 THEN -x ELSE x

Min(a, b) == IF a <= b THEN a ELSE b

Max(a, b) == IF a >= b THEN a ELSE b

(***************************************************************************)
(* Text                                                                    *)
(***************************************************************************)

\* str.lower() on the letters the model's texts use
LowerOf ==
    ("A" :> "a") @@ ("B" :> "b") @@ ("C" :> "c") @@ ("F" :> "f") @@
    ("I" :> "i") @@ ("K" :> "k") @@ ("L" :> "l") @@ ("M" :> "m") @@
    ("P" :> "p") @@ ("S" :> "s") @@ ("T" :> "t") @@ ("E" :> "e") @@
    ("G" :> "g") @@ ("N" :> "n") @@ ("O" :> "o") @@ ("R" :> "r")

lower(s) ==
    [i \in 1..Len(s) |-> IF s[i] \in DOMAIN LowerOf THEN LowerOf[s[i]] ELSE s[i]]

\* Python's `needle in hay` for strings
Contains(hay, needle) ==
    \E i \in 1..(Len(hay) - Len(needle) + 1) :
        SubSeq(hay, i, i + Len(needle) - 1) = needle

\* sum(1 for kw in keywords if kw in text)
CountIn(keywords, text) ==
    Cardinality({k \in 1..Len(keywords) : Contains(text, keywords[k])})

\* very_high_image_phrases of _check_very_high_image_intent
check_very_high_image_phrases ==
    << <<"s","i","m","i","l","a","r"," ","t","o"," ","t","h","i","s">>,
       <<"l","i","k","e"," ","t","h","i","s"," ","i","m","a","g","e">>,
       <<"m","a","t","c","h","i","n","g"," ","t","h","i","s">>,
       <<"s","a","m","e"," ","s","t","y","l","e"," ","a","s"," ","t","h","i","s">>,
       <<"l","o","o","k","s"," ","l","i","k","e"," ","t","h","i","s">>,
       <<"r","e","s","e","m","b","l","e","s"," ","t","h","i","s">>,
       <<"c","o","m","p","a","r","a","b","l","e"," ","t","o"," ","t","h","i","s">>,
       <<"i","n"," ","t","h","e"," ","s","t","y","l","e"," ","o","f"," ","t","h","i","s">>,
       <<"b","a","s","e","d"," ","o","n"," ","t","h","i","s"," ","i","m","a","g","e">>,
       <<"f","i","n","d"," ","p","r","o","f","i","l","e","s"," ","l","i","k","e"," ","t","h","i","s">>,
       <<"s","h","o","w"," ","m","e"," ","s","i","m","i","l","a","r"," ","t","o"," ","t","h","i","s">>,
       <<"w","h","o"," ","l","o","o","k","s"," ","l","i","k","e"," ","t","h","i","s">>,
       <<"p","r","o","f","i","l","e","s"," ","m","a","t","c","h","i","n","g"," ","t","h","i","s">> >>

\* very_high_image_phrases of get_fallback_weights
fallback_very_high_image_phrases ==
    << <<"s","i","m","i","l","a","r"," ","t","o"," ","t","h","i","s">>,
       <<"l","i","k","e"," ","t","h","i","s"," ","i","m","a","g","e">>,
       <<"m","a","t","c","h","i","n","g"," ","t","h","i","s">>,
       <<"s","a","m","e"," ","s","t","y","l","e"," ","a","s"," ","t","h","i","s">>,
       <<"l","o","o","k","s"," ","l","i","k","e"," ","t","h","i","s">>,
       <<"r","e","s","e","m","b","l","e","s"," ","t","h","i","s">> >>

high_image_keywords ==
    << <<"s","i","m","i","l","a","r">>,
       <<"m","a","t","c","h","i","n","g">>,
       <<"s","t","y","l","e">>,
       <<"l","o","o","k">>,
       <<"a","p","p","e","a","r","a","n","c","e">>,
       <<"r","e","s","e","m","b","l","e","s">>,
       <<"c","o","m","p","a","r","a","b","l","e">> >>

medium_image_keywords ==
    << <<"w","i","t","h"," ","s","i","m","i","l","a","r">>,
       <<"s","t","y","l","e"," ","a","n","d">>,
       <<"a","p","p","e","a","r","a","n","c","e"," ","o","f">>,
       <<"i","n","s","p","i","r","e","d"," ","b","y">>,
       <<"b","a","s","e","d"," ","o","n">> >>

text_keywords ==
    << <<"p","r","o","f","i","l","e","s">>,
       <<"a","c","c","o","u","n","t","s">>,
       <<"p","e","o","p","l","e">>,
       <<"s","e","a","r","c","h"," ","f","o","r">>,
       <<"f","i","n","d">>,
       <<"s","h","o","w"," ","m","e">>,
       <<"g","e","t">> >>

(***************************************************************************)
(* Floating point.  The validity checks compare a double with 0.001.  A    *)
(* distance is kept exactly, in thousandths; where the exact distance is   *)
(* 0.001 itself the double result lies just below or just above the double *)
(* 0.001 (or on it), and the rounding of that one computation decides.     *)
(***************************************************************************)
One == 1000

Tol == 1

\* round(w * 10) / 10: nearest multiple of 0.1, ties to the even multiple
RoundTenth(w) ==
    LET q == w \div 100
        r == w % 100
    IN  IF r < 50 THEN 100 * q
        ELSE IF r > 50 THEN 100 * (q + 1)
        ELSE IF q % 2 = 0 THEN 100 * q ELSE 100 * (q + 1)

\* abs(w - round(w * 10) / 10), exact part
QuantDist(w) == Abs(w - RoundTenth(w))

\* abs(w - round(w * 10) / 10) in doubles when the exact distance is 0.001:
\* equal to the double 0.001 for w = 0.001, above it for every other
\* thousandth in [0, 1] (0.099 gives 0.0010000000000000009, ...)
QuantRounding(w) == IF w = 1 THEN 0 ELSE 1

\* abs(image_weight + text_weight - 1.0), exact part
SumDist(iw, tw) == Abs(iw + tw - One)

\* abs(iw + tw - 1.0) in doubles when the exact distance is 0.001:
\* 0.001 + 1.0 and 0.5 + 0.501 give 0.0009999999999998899 (below); the
\* other pairs of the model's values at that distance, 0.5 + 0.499,
\* 0.9 + 0.099, 0.9 + 0.101, give 0.0010000000000000009 or more (above)
SumRounding(iw, tw) ==
    IF {iw, tw} \in {{1, 1000}, {500, 501}} THEN -1 ELSE 1

\* d > 0.001 for a double d of exact part dist and rounding rnd
ExceedsTol(dist, rnd) == dist > Tol \/ (dist = Tol /\ rnd > 0)

\* d < 0.001
BelowTol(dist, rnd) == dist < Tol \/ (dist = Tol /\ rnd < 0)

(***************************************************************************)
(* WeightAnalyzer                                                          *)
(***************************************************************************)
Weights(iw, tw) == [image_weight |-> iw, text_weight |-> tw]

_check_very_high_image_intent(query) ==
    LET query_lower == lower(query)
        high_image_count == CountIn(high_image_keywords, query_lower)
    IN  IF \E p \in 1..Len(check_very_high_image_phrases) :
               Contains(query_lower, check_very_high_image_phrases[p])
        THEN Weights(900, 100)
        ELSE IF high_image_count >= 2 THEN Weights(900, 100)
        ELSE None

\* get_fallback_weights with the medium tier left out
get_fallback_weights_no_medium(query) ==
    LET query_lower == lower(query)
        high_image_score == CountIn(high_image_keywords, query_lower)
        text_score == CountIn(text_keywords, query_lower)
        image_weight ==
            IF high_image_score > 0
            THEN Min(800, 600 + high_image_score * 100)
            ELSE Max(100, 300 - text_score * 100)
        text_weight == One - image_weight
    IN  IF \E p \in 1..Len(fallback_very_high_image_phrases) :
               Contains(query_lower, fallback_very_high_image_phrases[p])
        THEN Weights(900, 100)
        ELSE Weights(image_weight, text_weight)

get_fallback_weights(query) ==
    LET query_lower == lower(query)
        high_image_score == CountIn(high_image_keywords, query_lower)
        medium_image_score == CountIn(medium_image_keywords, query_lower)
        text_score == CountIn(text_keywords, query_lower)
        \* round(x, 1) of these sums is the same tenth: 0.6 + 0.1 -> 0.7,
        \* 0.3 - 0.1 = 0.19999999999999998 -> 0.2
        image_weight ==
            IF high_image_score > 0
            THEN Min(800, 600 + high_image_score * 100)
            ELSE IF medium_image_score > 0
            THEN Min(600, 400 + medium_image_score * 100)
            ELSE Max(100, 300 - text_score * 100)
        text_weight == One - image_weight
    IN  IF \E p \in 1..Len(fallback_very_high_image_phrases) :
               Contains(query_lower, fallback_very_high_image_phrases[p])
        THEN Weights(900, 100)
        ELSE Weights(image_weight, text_weight)

\* An LLM answer is a sequence of tokens: the two labels, a comma, a decimal
\* literal \d+\.\d+ (v in thousandths), or any other text.
Tok(t) == [t |-> t, v |-> 0]

Dec(v) == [t |-> "dec", v |-> v]

\* positions where r'image_weight:\s*(\d+\.\d+),\s*text_weight:\s*(\d+\.\d+)' matches
PatternAt(response) ==
    {i \in 1..(Len(response) - 4) :
        /\ response[i].t = "image_weight:"
        /\ response[i + 1].t = "dec"
        /\ response[i + 2].t = ","
        /\ response[i + 3].t = "text_weight:"
        /\ response[i + 4].t = "dec"}

\* re.findall(r'\d+\.\d+', response), as positions
DecimalsAt(response) == {i \in 1..Len(response) : response[i].t = "dec"}

SetMin(S) == CHOOSE x \in S : \A y \in S : x <= y

\* _parse_gemini_response without its first step
_parse_gemini_response_numbers_only(response) ==
    IF Cardinality(DecimalsAt(response)) >= 2
    THEN LET i == SetMin(DecimalsAt(response))
             j == SetMin(DecimalsAt(response) \ {i})
         IN  Weights(response[i].v, response[j].v)
    ELSE Weights(500, 500)

_parse_gemini_response(response) ==
    IF PatternAt(response) # {}
    THEN LET i == SetMin(PatternAt(response))
         IN  Weights(response[i + 1].v, response[i + 4].v)
    ELSE IF Cardinality(DecimalsAt(response)) >= 2
    THEN LET i == SetMin(DecimalsAt(response))
             j == SetMin(DecimalsAt(response) \ {i})
         IN  Weights(response[i].v, response[j].v)
    ELSE Weights(500, 500)

\* _validate_weights without its last check (the sum)
_validate_weights_no_sum(weights) ==
    LET image_weight == weights.image_weight
        text_weight == weights.text_weight
    IN  \/ ~(0 <= image_weight /\ image_weight <= One)
        \/ ~(0 <= text_weight /\ text_weight <= One)
        \/ ExceedsTol(QuantDist(image_weight), QuantRounding(image_weight))
        \/ ExceedsTol(QuantDist(text_weight), QuantRounding(text_weight))

\* TRUE when _validate_weights raises ValueError
_validate_weights(weights) ==
    LET image_weight == weights.image_weight
        text_weight == weights.text_weight
    IN  \/ ~(0 <= image_weight /\ image_weight <= One)
        \/ ~(0 <= text_weight /\ text_weight <= One)
        \/ ExceedsTol(QuantDist(image_weight), QuantRounding(image_weight))
        \/ ExceedsTol(QuantDist(text_weight), QuantRounding(text_weight))
        \/ ExceedsTol(SumDist(image_weight, text_weight),
                      SumRounding(image_weight, text_weight))

NoCall == [raised |-> FALSE, text |-> <<>>, called |-> FALSE]

\* get_weights with the API-key test moved before the override test
get_weights_key_first(query, hasKey, llm) ==
    LET high_image_weights == _check_very_high_image_intent(query)
        parsed == _parse_gemini_response(llm.text)
        override == [path |-> "override", weights |-> high_image_weights,
                     llmCalls |-> 0, fallbackRuns |-> 0, response |-> NoCall]
        nokey == [path |-> "no_key", weights |-> get_fallback_weights(query),
                  llmCalls |-> 0, fallbackRuns |-> 1, response |-> NoCall]
        except == [path |-> "except", weights |-> get_fallback_weights(query),
                   llmCalls |-> 1, fallbackRuns |-> 1, response |-> llm]
        gemini == [path |-> "gemini", weights |-> parsed,
                   llmCalls |-> 1, fallbackRuns |-> 0, response |-> llm]
    IN  IF ~hasKey THEN nokey
        ELSE IF high_image_weights # None THEN override
        ELSE IF llm.raised THEN except
        ELSE IF _validate_weights(parsed) THEN except
        ELSE gemini

\* get_weights answering an even split when there is no key or the call fails
get_weights_even_on_error(query, hasKey, llm) ==
    LET high_image_weights == _check_very_high_image_intent(query)
        parsed == _parse_gemini_response(llm.text)
        override == [path |-> "override", weights |-> high_image_weights,
                     llmCalls |-> 0, fallbackRuns |-> 0, response |-> NoCall]
        nokey == [path |-> "no_key", weights |-> Weights(500, 500),
                  llmCalls |-> 0, fallbackRuns |-> 1, response |-> NoCall]
        except == [path |-> "except", weights |-> Weights(500, 500),
                   llmCalls |-> 1, fallbackRuns |-> 1, response |-> llm]
        gemini == [path |-> "gemini", weights |-> parsed,
                   llmCalls |-> 1, fallbackRuns |-> 0, response |-> llm]
    IN  IF high_image_weights # None THEN override
        ELSE IF ~hasKey THEN nokey
        ELSE IF llm.raised THEN except
        ELSE IF _validate_weights(parsed) THEN except
        ELSE gemini

\* get_weights: the return path taken, the weights returned and the calls made
get_weights(query, hasKey, llm) ==
    LET high_image_weights == _check_very_high_image_intent(query)
        parsed == _parse_gemini_response(llm.text)
        override == [path |-> "override", weights |-> high_image_weights,
                     llmCalls |-> 0, fallbackRuns |-> 0, response |-> NoCall]
        nokey == [path |-> "no_key", weights |-> get_fallback_weights(query),
                  llmCalls |-> 0, fallbackRuns |-> 1, response |-> NoCall]
        except == [path |-> "except", weights |-> get_fallback_weights(query),
                   llmCalls |-> 1, fallbackRuns |-> 1, response |-> llm]
        gemini == [path |-> "gemini", weights |-> parsed,
                   llmCalls |-> 1, fallbackRuns |-> 0, response |-> llm]
    IN  IF high_image_weights # None THEN override
        ELSE IF ~hasKey THEN nokey
        ELSE IF llm.raised THEN except
        ELSE IF _validate_weights(parsed) THEN except
        ELSE gemini

QueryFragments ==
    << <<"s","i","m","i","l","a","r"," ","t","o"," ","t","h","i","s"," ","i","m","a","g","e">>,
       <<"L","o","o","k","s"," ","L","i","k","e"," ","T","h","i","s">>,
       <<"c","o","m","p","a","r","a","b","l","e"," ","t","o"," ","t","h","i","s">>,
       <<"f","i","n","d">>,
       <<"p","r","o","f","i","l","e","s">>,
       <<"t","r","a","v","e","l">>,
       <<"m","a","t","c","h","i","n","g">>,
       <<"s","t","y","l","e">>,
       <<"b","a","s","e","d"," ","o","n">>,
       <<"i","n","s","p","i","r","e","d"," ","b","y">>,
       <<"s","h","o","w"," ","m","e">>,
       <<"p","e","o","p","l","e">> >>
(***************************************************************************)
(* Inputs of the weight analyzer                                           *)
(***************************************************************************)
MaxFragments == 2

\* decimal literals an LLM answer may carry, in thousandths
LLMValues == {0, 1, 100, 101, 500, 900, 1000, 1500}

Space == <<" ">>

RECURSIVE JoinFragments(_)
JoinFragments(fs) ==
    IF Len(fs) = 0 THEN <<>>
    ELSE IF Len(fs) = 1 THEN QueryFragments[fs[1]]
    ELSE QueryFragments[fs[1]] \o Space \o JoinFragments(Tail(fs))

FragmentSeqs ==
    UNION {[1..n -> 1..Len(QueryFragments)] : n \in 0..MaxFragments}

Queries == {JoinFragments(fs) : fs \in FragmentSeqs}

PatternAnswer(a, b) ==
    <<Tok("image_weight:"), Dec(a), Tok(","), Tok("text_weight:"), Dec(b)>>

LLMTexts ==
    {PatternAnswer(a, b) : a, b \in LLMValues}
    \cup {<<Tok("text"), Dec(a), Tok("text"), Dec(b)>> : a, b \in LLMValues}
    \cup {<<Dec(a), Tok("text")>> : a \in LLMValues}
    \cup {<<Tok("text")>>, <<>>}

LLMBehaviours ==
    {[raised |-> FALSE, text |-> t, called |-> TRUE] : t \in LLMTexts}
    \cup {[raised |-> TRUE, text |-> <<>>, called |-> TRUE]}

WaIdle ==
    /\ wa_query = <<>>
    /\ wa_hasKey = FALSE
    /\ wa_called = FALSE
    /\ wa_response = NoCall
    /\ wa_llmCalls = 0
    /\ wa_fallbackRuns = 0
    /\ wa_path = "not returned"
    /\ wa_result = None

WaInit ==
    /\ wa_query \in Queries
    /\ wa_hasKey \in BOOLEAN
    /\ wa_called = FALSE
    /\ wa_response = NoCall
    /\ wa_llmCalls = 0
    /\ wa_fallbackRuns = 0
    /\ wa_path = "not returned"
    /\ wa_result = None

GetWeights ==
    /\ ~wa_called
    /\ \E llm \in LLMBehaviours :
        LET r == get_weights(wa_query, wa_hasKey, llm)
        IN  /\ wa_result' = r.weights
            /\ wa_path' = r.path
            /\ wa_llmCalls' = wa_llmCalls + r.llmCalls
            /\ wa_fallbackRuns' = wa_fallbackRuns + r.fallbackRuns
            /\ wa_response' = r.response
    /\ wa_called' = TRUE
    /\ UNCHANGED <<wa_query, wa_hasKey>>
    /\ UNCHANGED wa_others

(***************************************************************************)
(* HybridSearchEngine._create_hybrid_vector (fuse)                         *)
(***************************************************************************)
DimensionError == "Image and text embeddings must have same dimensions"

SumError == "Weights must sum to 1.0"

Raise(msg) == [raised |-> TRUE, error |-> msg, vector |-> <<>>]

Return(vec) == [raised |-> FALSE, error |-> "", vector |-> vec]

\* fuse with the two weights applied to the wrong vectors
_create_hybrid_vector_swapped(image_embedding, text_embedding, weights) ==
    IF Len(image_embedding) # Len(text_embedding)
    THEN Raise(DimensionError)
    ELSE IF ExceedsTol(SumDist(weights.image_weight, weights.text_weight),
                       SumRounding(weights.image_weight, weights.text_weight))
    THEN Raise(SumError)
    ELSE Return([i \in 1..Len(image_embedding) |->
                    weights.text_weight * image_embedding[i]
                    + weights.image_weight * text_embedding[i]])

\* fuse without the sum validation
_create_hybrid_vector_no_sum_check(image_embedding, text_embedding, weights) ==
    IF Len(image_embedding) # Len(text_embedding)
    THEN Raise(DimensionError)
    ELSE Return([i \in 1..Len(image_embedding) |->
                    weights.image_weight * image_embedding[i]
                    + weights.text_weight * text_embedding[i]])

\* fuse over the common prefix of the two vectors (zip), no length check
_create_hybrid_vector_zip(image_embedding, text_embedding, weights) ==
    IF ExceedsTol(SumDist(weights.image_weight, weights.text_weight),
                  SumRounding(weights.image_weight, weights.text_weight))
    THEN Raise(SumError)
    ELSE Return([i \in 1..Min(Len(image_embedding), Len(text_embedding)) |->
                    weights.image_weight * image_embedding[i]
                    + weights.text_weight * text_embedding[i]])

\* Components are integers; the weighted sum of a component is kept in
\* thousandths of that unit (weight in thousandths times component).
_create_hybrid_vector(image_embedding, text_embedding, weights) ==
    LET image_weight == weights.image_weight
        text_weight == weights.text_weight
    IN  IF Len(image_embedding) # Len(text_embedding)
        THEN Raise(DimensionError)
        ELSE IF ExceedsTol(SumDist(image_weight, text_weight),
                           SumRounding(image_weight, text_weight))
        THEN Raise(SumError)
        ELSE Return([i \in 1..Len(image_embedding) |->
                        image_weight * image_embedding[i]
                        + text_weight * text_embedding[i]])

MaxDim == 2

Components == {-2, 3}

FuseWeightValues == {-500, 0, 250, 499, 500, 501, 750, 1000, 1500}

Vectors == UNION {[1..n -> Components] : n \in 0..MaxDim}

FzIdle ==
    /\ fz_image = <<>>
    /\ fz_text = <<>>
    /\ fz_weights = None
    /\ fz_done = FALSE
    /\ fz_out = None

FzInit ==
    /\ fz_image \in Vectors
    /\ fz_text \in Vectors
    /\ fz_weights \in {Weights(iw, tw) : iw, tw \in FuseWeightValues}
    /\ fz_done = FALSE
    /\ fz_out = None

Fuse ==
    /\ ~fz_done
    /\ fz_out' = _create_hybrid_vector(fz_image, fz_text, fz_weights)
    /\ fz_done' = TRUE
    /\ UNCHANGED <<fz_image, fz_text, fz_weights>>
    /\ UNCHANGED fz_others

(***************************************************************************)
(* Hybrid search: GeminiSearchInterface.execute_hybrid_search calling      *)
(* HybridSearchEngine.search.  One action per statement that awaits or     *)
(* calls a collaborator.                                                   *)
(***************************************************************************)
Some(x) == [some |-> x]

\* the embedding dimension of the model (output_dim, 128 in the source)
HsDim == 2

HsVectors == [1..HsDim -> Components]

HsQueries ==
    { <<"f","i","n","d">>,
      <<"s","i","m","i","l","a","r"," ","t","o"," ","t","h","i","s"," ","i","m","a","g","e">>,
      <<"m","a","t","c","h","i","n","g">>,
      <<"b","a","s","e","d"," ","o","n"," ","t","r","a","v","e","l">> }

\* requests.head in validate_image_url
HeadOutcomes == {"image", "not_200", "not_image", "exception"}

\* the download and the CLIP embedding in get_embedding_from_url
FetchOutcomes == {"ok", "not_200", "download_exception", "embedding_failed"}

\* HybridSearchEngine.validate_image_url
validate_image_url(head) == head = "image"

\* ImageProcessor.get_embedding_from_url: the embedding, or None on any failure
get_embedding_from_url(fetch, vec) == IF fetch = "ok" THEN Some(vec) ELSE None

\* the methods class QdrantSearcher defines
QdrantSearcherMethods == {"__init__", "build_filters", "search"}

InvalidUrlMessage == "Error: Invalid or inaccessible image URL"

ImageError == "Failed to process image from URL"

EmbedError == "Error generating query embedding"

AttributeError == "'QdrantSearcher' object has no attribute 'search_with_vector'"

IndexError == "vector index unreachable"

\* ranked lists the index may answer with
HsResultLists == {<<>>, <<[id |-> 1, score |-> 9]>>,
                  <<[id |-> 2, score |-> 9], [id |-> 1, score |-> 4]>>}

\* search() step 2 with a failed image replaced by a zero vector
image_or_raise_degrading(image_embedding) ==
    IF image_embedding = None
    THEN Return([i \in 1..HsDim |-> 0])
    ELSE Return(image_embedding.some)

\* search() step 2: `if image_embedding is None: raise ValueError(...)`
image_or_raise(image_embedding) ==
    IF image_embedding = None
    THEN Raise(ImageError)
    ELSE Return(image_embedding.some)

HsIdle ==
    /\ hs_pc = "idle"
    /\ hs_text_query = <<>>
    /\ hs_hasKey = FALSE
    /\ hs_indexUp = FALSE
    /\ hs_head = "none"
    /\ hs_fetch = "none"
    /\ hs_weights = None
    /\ hs_image_embedding = None
    /\ hs_text_embedding = None
    /\ hs_hybrid_vector = None
    /\ hs_steps = <<>>
    /\ hs_search = None
    /\ hs_out = None

HsInit ==
    /\ hs_pc = "validate"
    /\ hs_text_query \in HsQueries
    /\ hs_hasKey \in BOOLEAN
    /\ hs_indexUp \in BOOLEAN
    /\ hs_head = "none"
    /\ hs_fetch = "none"
    /\ hs_weights = None
    /\ hs_image_embedding = None
    /\ hs_text_embedding = None
    /\ hs_hybrid_vector = None
    /\ hs_steps = <<>>
    /\ hs_search = None
    /\ hs_out = None

\* search() ends by raising msg: logged and re-raised (lines 66-68), caught
\* by execute_hybrid_search (lines 269-270)
HsRaise(msg) ==
    /\ hs_search' = [raised |-> TRUE, error |-> msg]
    /\ hs_out' = [error |-> TRUE, text |-> "Error executing hybrid search", cause |-> msg]
    /\ hs_pc' = "done"

\* execute_hybrid_search lines 256-259
ValidateImageUrl ==
    /\ hs_pc = "validate"
    /\ \E head \in HeadOutcomes :
        /\ hs_head' = head
        /\ IF validate_image_url(head)
           THEN /\ hs_pc' = "weights"
                /\ hs_out' = hs_out
           ELSE /\ hs_pc' = "done"
                /\ hs_out' = [error |-> TRUE, text |-> InvalidUrlMessage, cause |-> ""]
    /\ hs_steps' = Append(hs_steps, "validate")
    /\ UNCHANGED <<hs_text_query, hs_hasKey, hs_indexUp, hs_fetch, hs_weights,
                   hs_image_embedding, hs_text_embedding, hs_hybrid_vector, hs_search>>
    /\ UNCHANGED hs_others

\* search() Step 1
AnalyzeWeights ==
    /\ hs_pc = "weights"
    /\ \E llm \in LLMBehaviours :
        hs_weights' = get_weights(hs_text_query, hs_hasKey, llm).weights
    /\ hs_steps' = Append(hs_steps, "weights")
    /\ hs_pc' = "image"
    /\ UNCHANGED <<hs_text_query, hs_hasKey, hs_indexUp, hs_head, hs_fetch,
                   hs_image_embedding, hs_text_embedding, hs_hybrid_vector,
                   hs_search, hs_out>>
    /\ UNCHANGED hs_others

\* search() Step 2
ProcessImage ==
    /\ hs_pc = "image"
    /\ \E fetch \in FetchOutcomes, vec \in HsVectors :
        LET image_embedding == get_embedding_from_url(fetch, vec)
            checked == image_or_raise(image_embedding)
        IN  /\ hs_fetch' = fetch
            /\ IF checked.raised
               THEN /\ HsRaise(checked.error)
                    /\ hs_image_embedding' = hs_image_embedding
               ELSE /\ hs_image_embedding' = Some(checked.vector)
                    /\ hs_pc' = "text"
                    /\ UNCHANGED <<hs_search, hs_out>>
    /\ hs_steps' = Append(hs_steps, "image")
    /\ UNCHANGED <<hs_text_query, hs_hasKey, hs_indexUp, hs_head, hs_weights,
                   hs_text_embedding, hs_hybrid_vector>>
    /\ UNCHANGED hs_others

\* search() Step 3: embed_query returns a vector or raises
EmbedText ==
    /\ hs_pc = "text"
    /\ \/ \E vec \in HsVectors :
            /\ hs_text_embedding' = Some(vec)
            /\ hs_pc' = "fuse"
            /\ UNCHANGED <<hs_search, hs_out>>
       \/ /\ HsRaise(EmbedError)
          /\ hs_text_embedding' = hs_text_embedding
    /\ hs_steps' = Append(hs_steps, "text")
    /\ UNCHANGED <<hs_text_query, hs_hasKey, hs_indexUp, hs_head, hs_fetch,
                   hs_weights, hs_image_embedding, hs_hybrid_vector>>
    /\ UNCHANGED hs_others

\* search() Step 4
CreateHybridVector ==
    /\ hs_pc = "fuse"
    /\ LET fused == _create_hybrid_vector(hs_image_embedding.some,
                                          hs_text_embedding.some, hs_weights)
       IN  IF fused.raised
           THEN /\ HsRaise(fused.error)
                /\ hs_hybrid_vector' = hs_hybrid_vector
           ELSE /\ hs_hybrid_vector' = Some(fused.vector)
                /\ hs_pc' = "query"
                /\ UNCHANGED <<hs_search, hs_out>>
    /\ hs_steps' = Append(hs_steps, "fuse")
    /\ UNCHANGED <<hs_text_query, hs_hasKey, hs_indexUp, hs_head, hs_fetch,
                   hs_weights, hs_image_embedding, hs_text_embedding>>
    /\ UNCHANGED hs_others

\* search() Step 5: self.qdrant_searcher.search_with_vector(hybrid_vector,
\* limit=20), then `return results, weights` and the formatting of the
\* results by execute_hybrid_search
SearchIndex ==
    /\ hs_pc = "query"
    /\ IF "search_with_vector" \notin QdrantSearcherMethods
       THEN HsRaise(AttributeError)
       ELSE IF ~hs_indexUp
       THEN HsRaise(IndexError)
       ELSE \E results \in HsResultLists :
               /\ hs_search' = [raised |-> FALSE, results |-> results,
                                weights |-> hs_weights]
               /\ hs_out' = [error |-> FALSE, text |-> "HYBRID SEARCH RESULTS",
                             results |-> results, weights |-> hs_weights]
               /\ hs_pc' = "done"
    /\ hs_steps' = Append(hs_steps, "query")
    /\ UNCHANGED <<hs_text_query, hs_hasKey, hs_indexUp, hs_head, hs_fetch,
                   hs_weights, hs_image_embedding, hs_text_embedding,
                   hs_hybrid_vector>>
    /\ UNCHANGED hs_others

(***************************************************************************)
(* QdrantSearcher.search                                                   *)
(***************************************************************************)
\* top_k of QdrantSearcher.__init__
TopK == 20

MaxLimit == 2

Payload(username, follower_count, account_type) ==
    [username |-> username, follower_count |-> follower_count,
     account_type |-> account_type]

\* a payload key that is absent is None
PointPool ==
    { [id |-> 1, score |-> 9, payload |-> Payload(Some("alice"), Some(50), Some("human"))],
      [id |-> 2, score |-> 7, payload |-> Payload(Some("bob"), Some(100), Some("brand"))],
      [id |-> 3, score |-> 4, payload |-> Payload(Some("carol"), Some(5), Some("human"))],
      [id |-> 4, score |-> 2, payload |-> Payload(Some("dave"), None, Some("human"))] }

FollowerRanges ==
    { [min |-> 10, max |-> None],
      [min |-> 10, max |-> Some(100)],
      [min |-> 0, max |-> Some(50)] }

\* a filters dict; a key that is absent is None
FilterDicts ==
    [follower_count : {None} \cup {Some(r) : r \in FollowerRanges},
     account_type : {None, Some("human"), Some("brand")},
     username : {None, Some("alice"), Some("dave")}]

ScoreThresholds == {0, 5}

Limits == {None} \cup {Some(n) : n \in 0..MaxLimit}

RangeCondition(key, gte, lt) ==
    [key |-> key, kind |-> "range", gte |-> gte, lt |-> lt, value |-> None]

MatchCondition(key, value) ==
    [key |-> key, kind |-> "match", gte |-> 0, lt |-> None, value |-> Some(value)]

\* the conditions QdrantSearcher.build_filters collects: no username
build_filters_conditions(filters) ==
    (IF filters.follower_count # None
     THEN <<RangeCondition("follower_count", filters.follower_count.some.min,
                           filters.follower_count.some.max)>>
     ELSE <<>>)
    \o (IF filters.account_type # None
        THEN <<MatchCondition("account_type", filters.account_type.some)>>
        ELSE <<>>)

\* the conditions list search() collects (lines 111-143)
search_conditions(filters) ==
    (IF filters.follower_count # None
     THEN <<RangeCondition("follower_count", filters.follower_count.some.min,
                           filters.follower_count.some.max)>>
     ELSE <<>>)
    \o (IF filters.account_type # None
        THEN <<MatchCondition("account_type", filters.account_type.some)>>
        ELSE <<>>)
    \o (IF filters.username # None
        THEN <<MatchCondition("username", filters.username.some)>>
        ELSE <<>>)

\* FieldCondition on a payload: Range(gte, lt) or MatchValue(value)
ConditionHolds(payload, c) ==
    /\ payload[c.key] # None
    /\ IF c.kind = "range"
       THEN /\ payload[c.key].some >= c.gte
            /\ c.lt # None => payload[c.key].some < c.lt.some
       ELSE payload[c.key] = c.value

\* Filter(must=conditions); query_filter None matches every point
FilterHolds(payload, conditions) ==
    \A k \in 1..Len(conditions) : ConditionHolds(payload, conditions[k])

RECURSIVE ByScoreDescending(_)
ByScoreDescending(S) ==
    IF S = {} THEN <<>>
    ELSE LET top == CHOOSE p \in S : \A q \in S : p.score >= q.score
         IN  <<top>> \o ByScoreDescending(S \ {top})

\* client.search(query_vector, limit, offset, score_threshold, query_filter)
client_search(points, conditions, limit, offset, score_threshold) ==
    LET hits == {p \in points : /\ FilterHolds(p.payload, conditions)
                                /\ p.score >= score_threshold}
        ranked == ByScoreDescending(hits)
    IN  SubSeq(ranked, offset + 1, Min(Len(ranked), offset + limit))

\* `limit or self.top_k`
limit_or_top_k(limit) ==
    IF limit = None \/ limit = Some(0) THEN TopK ELSE limit.some

QsIdle ==
    /\ qs_points = {}
    /\ qs_score_threshold = 0
    /\ qs_filters = None
    /\ qs_offset = 0
    /\ qs_limit = None
    /\ qs_done = FALSE
    /\ qs_out = None

QsInit ==
    /\ qs_points \in SUBSET PointPool
    /\ qs_score_threshold \in ScoreThresholds
    /\ qs_filters \in FilterDicts
    /\ qs_offset \in {0, 1}
    /\ qs_limit \in Limits
    /\ qs_done = FALSE
    /\ qs_out = None

\* search(): embed_query returns or raises; then the index is queried
Search ==
    /\ ~qs_done
    /\ \/ qs_out' = [raised |-> FALSE,
                     results |-> client_search(qs_points,
                                               search_conditions(qs_filters),
                                               limit_or_top_k(qs_limit),
                                               qs_offset, qs_score_threshold)]
       \/ qs_out' = [raised |-> TRUE, results |-> <<>>]
    /\ qs_done' = TRUE
    /\ UNCHANGED <<qs_points, qs_score_threshold, qs_filters, qs_offset, qs_limit>>
    /\ UNCHANGED qs_others

(***************************************************************************)
(* Ingestion: InstagramEmbeddingPipeline.process_profile, one action per   *)
(* call to a collaborator, run by workers (pipeline runs) that share the   *)
(* collection.                                                             *)
(***************************************************************************)
MaxRuns == 3

IgWorkers == {1, 2}

ProfileIds == {7, 42}

\* the rows the metadata store may hand out: the same user_id may come
\* with changed content on a later run
Profiles ==
    [user_id : ProfileIds, username : {"traveller"}, full_name : {"T. Raveller"},
     is_private : {FALSE}, content : {1, 2}]

\* embedder.process_profile(...)['combined']: decided by the content
combined_vector(profile) == <<profile.content>>

\* metadata of process_profile (lines 123-128)
metadata_of(profile) ==
    [username |-> profile.username, user_id |-> profile.user_id,
     full_name |-> profile.full_name, is_private |-> profile.is_private]

\* outcomes of a request to the index
IndexOutcomes == {"ok", "error"}

\* QdrantManager.profile_exists: scroll filtered on payload user_id; an
\* exception is caught and answered False
profile_exists(points, profile_id, scroll) ==
    IF scroll = "error" THEN FALSE
    ELSE \E id \in DOMAIN points :
            points[id] # None /\ points[id].payload.user_id = profile_id

NotReturned == [pending |-> TRUE]

Skipped(profile_id) == [skipped |-> TRUE, profile_id |-> profile_id]

Processed(profile_id) == [skipped |-> FALSE, profile_id |-> profile_id]

IgIdle ==
    /\ ig_points = [id \in ProfileIds |-> None]
    /\ ig_pc = [w \in IgWorkers |-> "idle"]
    /\ ig_profile = [w \in IgWorkers |-> None]
    /\ ig_skip = [w \in IgWorkers |-> FALSE]
    /\ ig_embedding = [w \in IgWorkers |-> None]
    /\ ig_result = [w \in IgWorkers |-> NotReturned]
    /\ ig_before = [w \in IgWorkers |-> None]
    /\ ig_upserted = [w \in IgWorkers |-> FALSE]
    /\ ig_runs = MaxRuns

IgInit ==
    /\ ig_points = [id \in ProfileIds |-> None]
    /\ ig_pc = [w \in IgWorkers |-> "idle"]
    /\ ig_profile = [w \in IgWorkers |-> None]
    /\ ig_skip = [w \in IgWorkers |-> FALSE]
    /\ ig_embedding = [w \in IgWorkers |-> None]
    /\ ig_result = [w \in IgWorkers |-> NotReturned]
    /\ ig_before = [w \in IgWorkers |-> None]
    /\ ig_upserted = [w \in IgWorkers |-> FALSE]
    /\ ig_runs = 0

\* process_profile has returned to its caller
IgReturned(w) == ig_pc[w] = "idle" /\ ig_result[w] # NotReturned

\* process_profile ends with value
IgReturn(w, value) ==
    /\ ig_result' = [ig_result EXCEPT ![w] = value]
    /\ ig_pc' = [ig_pc EXCEPT ![w] = "idle"]

\* process_profile(profile, skip_existing) is entered (lines 53-59)
EnterProfile(w, profile, skip_existing) ==
    /\ ig_profile' = [ig_profile EXCEPT ![w] = profile]
    /\ ig_skip' = [ig_skip EXCEPT ![w] = skip_existing]
    /\ ig_before' = [ig_before EXCEPT ![w] = ig_points[profile.user_id]]
    /\ ig_pc' = [ig_pc EXCEPT ![w] =
                    IF skip_existing THEN "check_exists" ELSE "embed"]
    /\ ig_embedding' = [ig_embedding EXCEPT ![w] = None]
    /\ ig_result' = [ig_result EXCEPT ![w] = NotReturned]
    /\ ig_upserted' = [ig_upserted EXCEPT ![w] = FALSE]
    /\ UNCHANGED ig_points

\* a pipeline run calls process_profile
StartProfile(w) ==
    /\ ig_pc[w] = "idle"
    /\ ig_runs < MaxRuns
    /\ \E profile \in Profiles, skip_existing \in BOOLEAN :
        EnterProfile(w, profile, skip_existing)
    /\ ig_runs' = ig_runs + 1
    /\ UNCHANGED ig_others

\* lines 59-64: self.qdrant.profile_exists(profile_id)
CheckExists(w) ==
    /\ ig_pc[w] = "check_exists"
    /\ \E scroll \in IndexOutcomes :
        IF profile_exists(ig_points, ig_profile[w].user_id, scroll)
        THEN IgReturn(w, Skipped(ig_profile[w].user_id))
        ELSE /\ ig_pc' = [ig_pc EXCEPT ![w] = "embed"]
             /\ UNCHANGED ig_result
    /\ UNCHANGED <<ig_points, ig_profile, ig_skip, ig_embedding, ig_before,
                   ig_upserted, ig_runs>>
    /\ UNCHANGED ig_others

\* lines 66-118: download, text extraction and embedding; any exception is
\* caught at line 160 and process_profile returns None
Embed(w) ==
    /\ ig_pc[w] = "embed"
    /\ \/ /\ ig_embedding' = [ig_embedding EXCEPT ![w] =
                                 Some(combined_vector(ig_profile[w]))]
          /\ ig_pc' = [ig_pc EXCEPT ![w] = "store_check"]
          /\ UNCHANGED ig_result
       \/ /\ IgReturn(w, None)
          /\ UNCHANGED ig_embedding
    /\ UNCHANGED <<ig_points, ig_profile, ig_skip, ig_before, ig_upserted, ig_runs>>
    /\ UNCHANGED ig_others

\* store_profile_vectors lines 156-162: `skip_existing and profile_exists(...)`
StoreCheck(w) ==
    /\ ig_pc[w] = "store_check"
    /\ \E scroll \in IndexOutcomes :
        IF ig_skip[w] /\ profile_exists(ig_points, ig_profile[w].user_id, scroll)
        THEN IgReturn(w, Skipped(ig_profile[w].user_id))
        ELSE /\ ig_pc' = [ig_pc EXCEPT ![w] = "upsert"]
             /\ UNCHANGED ig_result
    /\ UNCHANGED <<ig_points, ig_profile, ig_skip, ig_embedding, ig_before,
                   ig_upserted, ig_runs>>
    /\ UNCHANGED ig_others

\* _store_vector: client.upsert of PointStruct(id=profile_id, vector, payload);
\* an exception makes it return False and process_profile return None
Upsert(w) ==
    /\ ig_pc[w] = "upsert"
    /\ ig_upserted' = [ig_upserted EXCEPT ![w] = TRUE]
    /\ \E upsert \in IndexOutcomes :
        IF upsert = "ok"
        THEN /\ ig_points' = [ig_points EXCEPT ![ig_profile[w].user_id] =
                                 [vector |-> ig_embedding[w].some,
                                  payload |-> metadata_of(ig_profile[w])]]
             /\ IgReturn(w, Processed(ig_profile[w].user_id))
        ELSE /\ UNCHANGED ig_points
             /\ IgReturn(w, None)
    /\ UNCHANGED <<ig_profile, ig_skip, ig_embedding, ig_before, ig_runs>>
    /\ UNCHANGED ig_others

(***************************************************************************)
(* process_batch: the loop over the batch, each iteration a call of         *)
(* process_profile on the worker that runs the batch.                       *)
(***************************************************************************)
MaxBatch == 2

BatchWorker == 1

RECURSIVE SeqsUpTo(_, _)
SeqsUpTo(S, n) ==
    IF n = 0 THEN {<<>>}
    ELSE SeqsUpTo(S, n - 1) \cup [1..n -> S]

Batches == SeqsUpTo(Profiles, MaxBatch)

\* `if result: results.append(result)` keeping every result
append_every_result(results, result) == Append(results, result)

\* `if result: results.append(result)`: None is falsy, the result
\* dictionaries are not
append_if_result(results, result) ==
    IF result # None THEN Append(results, result) ELSE results

BtIdle ==
    /\ bt_pc = "idle"
    /\ bt_profiles = <<>>
    /\ bt_skip = FALSE
    /\ bt_i = 0
    /\ bt_results = <<>>
    /\ bt_outcomes = <<>>

BtInit ==
    /\ bt_pc = "loop"
    /\ bt_i = 0
    /\ bt_results = <<>>
    /\ bt_outcomes = <<>>
    /\ bt_skip \in BOOLEAN
    /\ bt_profiles \in Batches

\* `for profile in profiles`: result = await self.process_profile(profile,
\* skip_existing) is entered for the next profile
BatchCall ==
    /\ bt_pc = "loop"
    /\ bt_i < Len(bt_profiles)
    /\ ig_pc[BatchWorker] = "idle"
    /\ EnterProfile(BatchWorker, bt_profiles[bt_i + 1], bt_skip)
    /\ bt_pc' = "calling"
    /\ bt_i' = bt_i + 1
    /\ UNCHANGED <<ig_runs, bt_profiles, bt_skip, bt_results, bt_outcomes>>
    /\ UNCHANGED bt_others

\* process_profile has returned: lines 231-232
BatchCollect ==
    /\ bt_pc = "calling"
    /\ IgReturned(BatchWorker)
    /\ bt_results' = append_if_result(bt_results, ig_result[BatchWorker])
    /\ bt_outcomes' = Append(bt_outcomes, ig_result[BatchWorker])
    /\ bt_pc' = "loop"
    /\ UNCHANGED <<bt_profiles, bt_skip, bt_i>>
    /\ UNCHANGED ig_vars
    /\ UNCHANGED bt_others

\* the loop is exhausted: return results
BatchReturn ==
    /\ bt_pc = "loop"
    /\ bt_i = Len(bt_profiles)
    /\ bt_pc' = "returned"
    /\ UNCHANGED <<bt_profiles, bt_skip, bt_i, bt_results, bt_outcomes>>
    /\ UNCHANGED ig_vars
    /\ UNCHANGED bt_others

(***************************************************************************)
(* FollowerCountConverter.parse_follower_count.  Counts stay below 2^31.   *)
(***************************************************************************)
\* str.upper() on the letters the model's texts use
UpperOf ==
    ("a" :> "A") @@ ("b" :> "B") @@ ("d" :> "D") @@ ("e" :> "E") @@
    ("f" :> "F") @@ ("i" :> "I") @@ ("k" :> "K") @@ ("l" :> "L") @@
    ("m" :> "M") @@ ("n" :> "N") @@ ("o" :> "O") @@ ("r" :> "R") @@
    ("s" :> "S") @@ ("t" :> "T") @@ ("v" :> "V") @@ ("w" :> "W") @@
    ("y" :> "Y")

upper(s) ==
    [i \in 1..Len(s) |-> IF s[i] \in DOMAIN UpperOf THEN UpperOf[s[i]] ELSE s[i]]

RECURSIVE lstrip(_)
lstrip(s) == IF s # <<>> /\ Head(s) = " " THEN lstrip(Tail(s)) ELSE s

RECURSIVE rstrip(_)
rstrip(s) ==
    IF s # <<>> /\ s[Len(s)] = " " THEN rstrip(SubSeq(s, 1, Len(s) - 1)) ELSE s

strip(s) == rstrip(lstrip(s))

\* str.replace(old, '')
RECURSIVE replace_with_empty(_, _)
replace_with_empty(s, old) ==
    IF Len(s) < Len(old) THEN s
    ELSE IF SubSeq(s, 1, Len(old)) = old
    THEN replace_with_empty(SubSeq(s, Len(old) + 1, Len(s)), old)
    ELSE <<Head(s)>> \o replace_with_empty(Tail(s), old)

DigitValue ==
    ("0" :> 0) @@ ("1" :> 1) @@ ("2" :> 2) @@ ("3" :> 3) @@ ("4" :> 4) @@
    ("5" :> 5) @@ ("6" :> 6) @@ ("7" :> 7) @@ ("8" :> 8) @@ ("9" :> 9)

\* how many characters of \d the text starts with
RECURSIVE DigitRun(_)
DigitRun(s) ==
    IF s # <<>> /\ Head(s) \in DOMAIN DigitValue THEN 1 + DigitRun(Tail(s)) ELSE 0

RECURSIVE NatOf(_)
NatOf(digits) ==
    IF digits = <<>> THEN 0
    ELSE 10 * NatOf(SubSeq(digits, 1, Len(digits) - 1))
         + DigitValue[digits[Len(digits)]]

RECURSIVE Pow10(_)
Pow10(n) == IF n = 0 THEN 1 ELSE 10 * Pow10(n - 1)

From(s, i) == SubSeq(s, i, Len(s))

\* MULTIPLIERS
MULTIPLIERS == ("K" :> 3) @@ ("M" :> 6) @@ ("B" :> 9)

\* the lengths of the parts of a text that starts <digits>[.][<digits>]
DotLen(s) ==
    IF Len(s) > DigitRun(s) /\ s[DigitRun(s) + 1] = "." THEN 1 ELSE 0

FracLen(s) == DigitRun(From(s, DigitRun(s) + DotLen(s) + 1))

NumberLen(s) == DigitRun(s) + DotLen(s) + FracLen(s)

\* the digits of that number, the point left out
Mantissa(s) ==
    NatOf(SubSeq(s, 1, DigitRun(s))
          \o SubSeq(s, DigitRun(s) + DotLen(s) + 1, NumberLen(s)))

\* re.match(r'^(\d+\.?\d*)([KMB])?$', text): None, or the two groups with
\* the number as its digits and the count of digits after the point
follower_match(text) ==
    IF DigitRun(text) = 0 THEN None
    ELSE IF NumberLen(text) = Len(text)
    THEN [mant |-> Mantissa(text), scale |-> FracLen(text), unit |-> None]
    ELSE IF NumberLen(text) + 1 = Len(text)
            /\ text[Len(text)] \in DOMAIN MULTIPLIERS
    THEN [mant |-> Mantissa(text), scale |-> FracLen(text),
          unit |-> Some(text[Len(text)])]
    ELSE None

Unsigned(s) == IF s # <<>> /\ Head(s) = "-" THEN Tail(s) ELSE s

\* the exponent written after the E of a float literal, None if malformed
ExponentOf(s) ==
    IF Unsigned(s) = <<>> \/ DigitRun(Unsigned(s)) # Len(Unsigned(s)) THEN None
    ELSE IF s # Unsigned(s) THEN Some(0 - NatOf(Unsigned(s)))
    ELSE Some(NatOf(s))

Finite(neg, body, exp) ==
    IF Mantissa(body) > 0 /\ exp > 308 THEN [kind |-> "inf"]
    ELSE [kind |-> "finite", neg |-> neg, mant |-> Mantissa(body),
          scale |-> FracLen(body), exp |-> exp]

float_of(neg, body) ==
    IF body \in {<<"I","N","F">>, <<"I","N","F","I","N","I","T","Y">>}
    THEN [kind |-> "inf"]
    ELSE IF body = <<"N","A","N">> THEN [kind |-> "nan"]
    ELSE IF DigitRun(body) + FracLen(body) = 0 THEN [kind |-> "invalid"]
    ELSE IF NumberLen(body) = Len(body) THEN Finite(neg, body, 0)
    ELSE IF body[NumberLen(body) + 1] # "E"
            \/ ExponentOf(From(body, NumberLen(body) + 2)) = None
    THEN [kind |-> "invalid"]
    ELSE Finite(neg, body, ExponentOf(From(body, NumberLen(body) + 2)).some)

\* float(text): "invalid" stands for ValueError
float(text) == float_of(strip(text) # Unsigned(strip(text)), Unsigned(strip(text)))

\* int(mant / 10^scale * 10^exp) for a double that is exact enough
int_of_decimal(mant, scale, exp) ==
    IF exp >= scale THEN mant * Pow10(exp - scale)
    ELSE mant \div Pow10(scale - exp)

\* the multiplications number * multiplier whose double is just below the
\* exact product (4.1 * 1000000 = 4099999.9999999995)
ShortProducts == {<<41, 1, 6>>, <<82, 1, 6>>}

\* int(number * MULTIPLIERS[unit]), the product taken in doubles
int_of_product(mant, scale, exp) ==
    IF <<mant, scale, exp>> \in ShortProducts
    THEN int_of_decimal(mant, scale, exp) - 1
    ELSE int_of_decimal(mant, scale, exp)

Returned(value) == [raised |-> FALSE, value |-> value]

OverflowError == [raised |-> TRUE, error |-> "OverflowError"]

IntValue(n) == [int |-> n]

\* int(float(text)) inside the try of parse_follower_count: ValueError is
\* caught and answered None, OverflowError is not caught
int_float(text) ==
    LET f == float(text)
    IN  IF f.kind \in {"invalid", "nan"} THEN Returned(None)
        ELSE IF f.kind = "inf" THEN OverflowError
        ELSE LET n == int_of_decimal(f.mant, f.scale, f.exp)
             IN  Returned(IntValue(IF f.neg THEN 0 - n ELSE n))

parse_follower_count(text) ==
    IF text = <<>> THEN Returned(None)
    ELSE LET cleaned == strip(replace_with_empty(
                            replace_with_empty(strip(upper(text)),
                                <<"F","O","L","L","O","W","E","R","S">>),
                            <<"+">>))
             match == follower_match(cleaned)
         IN  IF match = None THEN int_float(cleaned)
             ELSE Returned(IntValue(int_of_product(match.mant, match.scale,
                      IF match.unit = None THEN 0
                      ELSE MULTIPLIERS[match.unit.some])))

MaxPad == 1

IntTexts == {<<"0">>, <<"1">>, <<"4">>, <<"8">>, <<"1", "9">>, <<"3", "4">>}

FracTexts == {<<>>, <<".">>, <<".", "1">>, <<".", "2">>, <<".", "3">>, <<".", "5">>, <<".", "2", "5">>}

UnitTexts == {<<>>, <<"K">>, <<"k">>, <<"M">>, <<"m">>}

BillionTexts ==
    {n \o u : n \in {<<"1">>, <<"1", ".", "5">>, <<"2">>}, u \in {<<"B">>, <<"b">>}}

NoiseTexts ==
    {<<>>, <<"+">>, <<" ", "f", "o", "l", "l", "o", "w", "e", "r", "s">>, <<"+", " ", "f", "o", "l", "l", "o", "w", "e", "r", "s">>, <<" ", "F", "o", "l", "l", "o", "w", "e", "r", "s">>}

Pads == {[i \in 1..n |-> " "] : n \in 0..MaxPad}

\* a number, a unit, noise and surrounding whitespace
CountTexts ==
    {l \o c \o x \o r :
        l \in Pads, r \in Pads, x \in NoiseTexts,
        c \in {i \o f \o u : i \in IntTexts, f \in FracTexts, u \in UnitTexts}
              \cup BillionTexts}

\* texts that are not a count
OddTexts ==
    {<<>>,
     <<"i", "n", "v", "a", "l", "i", "d">>,
     <<"K", " ", "f", "o", "l", "l", "o", "w", "e", "r", "s">>,
     <<"1", ".", "5", ".", "K">>,
     <<"i", "n", "f">>,
     <<"I", "n", "f", "i", "n", "i", "t", "y">>,
     <<"n", "a", "n">>,
     <<"1", "e", "4", "0", "0">>,
     <<"1", "e", "3">>,
     <<"-", "5">>,
     <<"-", "1", ".", "5">>,
     <<".", "5">>,
     <<" ">>,
     <<"+">>,
     <<"f", "o", "l", "l", "o", "w", "e", "r", "s">>,
     <<"1", " ", "K">>,
     <<"1", ",", "0", "0", "0">>,
     <<"K">>,
     <<"1", ".", "5", "K", "M">>,
     <<"e", "3">>,
     <<"-">>,
     <<"1", "e">>}

FcIdle ==
    /\ fc_text = <<>>
    /\ fc_done = TRUE
    /\ fc_out = None

FcInit ==
    /\ fc_done = FALSE
    /\ fc_out = None
    /\ fc_text \in CountTexts \cup OddTexts

ParseFollowerCount ==
    /\ ~fc_done
    /\ fc_out' = parse_follower_count(fc_text)
    /\ fc_done' = TRUE
    /\ UNCHANGED fc_text
    /\ UNCHANGED fc_others

(***************************************************************************)
(* FollowerCountConverter.get_follower_category and get_category_range     *)
(***************************************************************************)
CategoryNone == <<"n", "o", "n", "e">>

CategoryNano == <<"n", "a", "n", "o">>

CategoryMicro == <<"m", "i", "c", "r", "o">>

CategoryMacro == <<"m", "a", "c", "r", "o">>

CategoryMega == <<"m", "e", "g", "a">>

\* get_follower_category with the thresholds taken as inclusive upper ends
get_follower_category_inclusive(count) ==
    IF count <= 1000 THEN CategoryNone
    ELSE IF count <= 10000 THEN CategoryNano
    ELSE IF count <= 100000 THEN CategoryMicro
    ELSE IF count <= 1000000 THEN CategoryMacro
    ELSE CategoryMega

get_follower_category(count) ==
    IF count < 1000 THEN CategoryNone
    ELSE IF count < 10000 THEN CategoryNano
    ELSE IF count < 100000 THEN CategoryMicro
    ELSE IF count < 1000000 THEN CategoryMacro
    ELSE CategoryMega

\* float('inf')
Infinity == [inf |-> TRUE]

Range(min, max) == [min |-> min, max |-> max]

\* the dictionary `ranges`
ranges ==
    (CategoryNano :> Range(1000, Some(10000))) @@
    (CategoryMicro :> Range(10000, Some(100000))) @@
    (CategoryMacro :> Range(100000, Some(1000000))) @@
    (CategoryMega :> Range(1000000, Infinity))

\* ranges.get(category.lower(), (0, 0))
get_category_range(category) ==
    IF lower(category) \in DOMAIN ranges THEN ranges[lower(category)]
    ELSE Range(0, Some(0))

MaxDelta == 2

Thresholds == {1000, 10000, 100000, 1000000}

Counts ==
    {t + d : t \in Thresholds, d \in (0 - MaxDelta)..MaxDelta}
    \cup {-1, 0, 1, 500, 5000, 50000, 500000, 5000000, 1000000000}

CategoryNames ==
    {<<"n", "a", "n", "o">>,
     <<"m", "i", "c", "r", "o">>,
     <<"m", "a", "c", "r", "o">>,
     <<"m", "e", "g", "a">>,
     <<"n", "o", "n", "e">>,
     <<"i", "n", "v", "a", "l", "i", "d">>,
     <<"N", "a", "n", "o">>,
     <<"M", "E", "G", "A">>,
     <<"M", "a", "c", "r", "o">>,
     <<>>}

CtIdle ==
    /\ ct_count = 0
    /\ ct_name = <<>>
    /\ ct_done = TRUE
    /\ ct_category = None
    /\ ct_range = None
    /\ ct_named_range = None

CtInit ==
    /\ ct_done = FALSE
    /\ ct_category = None
    /\ ct_range = None
    /\ ct_named_range = None
    /\ ct_count \in Counts
    /\ ct_name \in CategoryNames

Categorize ==
    /\ ~ct_done
    /\ ct_category' = Some(get_follower_category(ct_count))
    /\ ct_range' = get_category_range(get_follower_category(ct_count))
    /\ ct_named_range' = get_category_range(ct_name)
    /\ ct_done' = TRUE
    /\ UNCHANGED <<ct_count, ct_name>>
    /\ UNCHANGED ct_others

(***************************************************************************)
(* AccountTypeClassifier._check_rate_limits, with the clock as a variable. *)
(***************************************************************************)
max_rpm == 10

DailyLimit == 1000

MinuteWindow == 60

DayWindow == 86400

MaxCalls == 11

MaxElapsed == 125

\* the seconds that may pass between two calls
Advances == {30, 61}

\* time.sleep may return late
Oversleep == {0, 1}

\* sleep_time when the ceiling is met, the limiter not waiting
sleep_time_none(current_time, minute_start) == 0

\* sleep_time = 60 - (current_time - self.minute_start)
sleep_time(current_time, minute_start) ==
    MinuteWindow - (current_time - minute_start)

\* the body of _check_rate_limits called at current_time; late is how much
\* longer than asked time.sleep takes
_check_rate_limits(current_time, late) ==
    LET newDay == current_time - rl_day_start > DayWindow
        day == IF newDay THEN 0 ELSE rl_requests_per_day
        dayStart == IF newDay THEN current_time ELSE rl_day_start
        newMinute == current_time - rl_minute_start > MinuteWindow
        minute == IF newMinute THEN 0 ELSE rl_requests_per_minute
        minuteStart == IF newMinute THEN current_time ELSE rl_minute_start
        slept == sleep_time(current_time, minuteStart) + late
    IN  IF day >= DailyLimit
        THEN [raised |-> TRUE, slept |-> 0, time |-> current_time,
              day_start |-> dayStart, minute_start |-> rl_minute_start,
              requests_per_minute |-> rl_requests_per_minute,
              requests_per_day |-> day,
              last_request_time |-> rl_last_request_time]
        ELSE IF minute >= max_rpm
        THEN [raised |-> FALSE, slept |-> slept, time |-> current_time + slept,
              day_start |-> dayStart, minute_start |-> current_time + slept,
              requests_per_minute |-> 1, requests_per_day |-> day + 1,
              last_request_time |-> current_time]
        ELSE [raised |-> FALSE, slept |-> 0, time |-> current_time,
              day_start |-> dayStart, minute_start |-> minuteStart,
              requests_per_minute |-> minute + 1, requests_per_day |-> day + 1,
              last_request_time |-> current_time]

\* a classifier late in its day: 991 requests made 61 seconds apart
LateRequests == DailyLimit - max_rpm + 1

LateTime == 61 * LateRequests

RlIdle ==
    /\ rl_time = 0
    /\ rl_day_start = 0
    /\ rl_minute_start = 0
    /\ rl_requests_per_minute = 0
    /\ rl_requests_per_day = 0
    /\ rl_last_request_time = 0
    /\ rl_calls = MaxCalls
    /\ rl_last = None
    /\ rl_admitted = <<>>
    /\ rl_llm_calls = 0
    /\ rl_result = None

RlInit ==
    /\ rl_day_start = 0
    /\ rl_calls = 0
    /\ rl_last = None
    /\ rl_llm_calls = 0
    /\ rl_result = None
    /\ \/ /\ rl_time = 0
          /\ rl_admitted = <<>>
          /\ rl_minute_start = 0
          /\ rl_requests_per_minute = 0
          /\ rl_requests_per_day = 0
          /\ rl_last_request_time = 0
       \/ /\ rl_time = LateTime
          /\ rl_admitted = <<LateTime>>
          /\ rl_minute_start = LateTime
          /\ rl_requests_per_minute = 1
          /\ rl_requests_per_day = LateRequests
          /\ rl_last_request_time = LateTime

\* the time at which the behaviour began
RlStarted == IF rl_requests_per_day >= LateRequests THEN LateTime ELSE 0

\* time passes between two calls
Tick ==
    /\ rl_calls < MaxCalls
    /\ \E d \in Advances :
        /\ rl_time + d - RlStarted <= MaxElapsed
        /\ rl_time' = rl_time + d
    /\ UNCHANGED <<rl_day_start, rl_minute_start, rl_requests_per_minute,
                   rl_requests_per_day, rl_last_request_time, rl_calls, rl_last,
                   rl_admitted, rl_llm_calls, rl_result>>
    /\ UNCHANGED rl_others

\* what generate_content does: one of the two words, another text, or an
\* exception
GeminiAnswers == {"human", "brand", "other", "error"}

\* the value _classify_with_gemini returns: the exception of
\* _check_rate_limits and that of generate_content both end in the except
\* clause
_classify_with_gemini(raised, answer) ==
    IF raised THEN "unknown"
    ELSE IF answer \in {"human", "brand"} THEN answer
    ELSE "unknown"

\* _classify_with_gemini: self._check_rate_limits(), then generate_content
CheckRateLimits ==
    /\ rl_calls < MaxCalls
    /\ \E late \in Oversleep, answer \in GeminiAnswers :
        LET r == _check_rate_limits(rl_time, late)
        IN  /\ rl_admitted' = IF r.raised THEN rl_admitted
                              ELSE Append(rl_admitted, r.time)
            /\ rl_llm_calls' = IF r.raised THEN rl_llm_calls ELSE rl_llm_calls + 1
            /\ rl_result' = _classify_with_gemini(r.raised, answer)
            /\ rl_time' = r.time
            /\ rl_day_start' = r.day_start
            /\ rl_minute_start' = r.minute_start
            /\ rl_requests_per_minute' = r.requests_per_minute
            /\ rl_requests_per_day' = r.requests_per_day
            /\ rl_last_request_time' = r.last_request_time
            /\ rl_last' = [ceiling |-> /\ rl_requests_per_minute >= max_rpm
                                       /\ rl_time - rl_minute_start <= MinuteWindow,
                           day_ceiling |-> rl_requests_per_day >= DailyLimit,
                           window_start |-> rl_minute_start,
                           entered |-> rl_time,
                           day_before |-> rl_requests_per_day,
                           raised |-> r.raised,
                           slept |-> r.slept]
    /\ rl_calls' = rl_calls + 1
    /\ UNCHANGED rl_others

(***************************************************************************)
(* get_fallback_weights and _parse_gemini_response called directly         *)
(***************************************************************************)
FbIdle ==
    /\ fb_query = <<>>
    /\ fb_weights = Weights(300, 700)

FbInit ==
    /\ fb_weights = None
    /\ fb_query \in Queries

GetFallbackWeights ==
    /\ fb_weights = None
    /\ fb_weights' = get_fallback_weights(fb_query)
    /\ UNCHANGED fb_query
    /\ UNCHANGED fb_others

MaxTokens == 6

\* what an answer is made of: the labels, the comma, decimal literals, and
\* anything else (words, integers without a point)
ResponseTokens ==
    {Tok("image_weight:"), Tok("text_weight:"), Tok(","), Tok("text"),
     Dec(300), Dec(700)}

Responses == UNION {[1..n -> ResponseTokens] : n \in 0..MaxTokens}

PrIdle ==
    /\ pr_response = <<>>
    /\ pr_weights = Weights(500, 500)

PrInit ==
    /\ pr_weights = None
    /\ pr_response \in Responses

ParseGeminiResponse ==
    /\ pr_weights = None
    /\ pr_weights' = _parse_gemini_response(pr_response)
    /\ UNCHANGED pr_response
    /\ UNCHANGED pr_others

IcIdle ==
    /\ ic_max_retries = 0
    /\ ic_retry_delay = 0
    /\ ic_api_key = None
    /\ ic_pc = "idle"
    /\ ic_attempt = 0
    /\ ic_attempts = 0
    /\ ic_slept = 0
    /\ ic_failed_last = FALSE
    /\ ic_out = None

(***************************************************************************)
(* QdrantManager._initialize_client: the retry loop, one action per        *)
(* connection attempt and per sleep.                                       *)
(***************************************************************************)
MaxRetries == 5

RetryDelays == {1, 2}

\* client_kwargs: url and timeout, api_key only when one is set
client_kwargs(api_key) ==
    IF api_key # None
    THEN [url |-> "url", timeout |-> 10, api_key |-> api_key]
    ELSE [url |-> "url", timeout |-> 10]

ConnectionError(message) == [exception |-> "ConnectionError", message |-> message]

\* `attempt == max_retries - 1`, the test made after every failure, read one
\* attempt too late
last_attempt_late(attempt, max_retries) == attempt = max_retries

\* `attempt == max_retries - 1`
last_attempt(attempt, max_retries) == attempt = max_retries - 1

IcInit ==
    /\ ic_max_retries \in 0..MaxRetries
    /\ ic_retry_delay \in RetryDelays
    /\ ic_api_key \in {None, Some("key")}
    /\ ic_pc = "for"
    /\ ic_attempt = 0
    /\ ic_attempts = 0
    /\ ic_slept = 0
    /\ ic_failed_last = FALSE
    /\ ic_out = None

\* `for attempt in range(max_retries)`: the next attempt, or the loop is
\* over and the final raise is reached
ForAttempt ==
    /\ ic_pc = "for"
    /\ IF ic_attempt < ic_max_retries
       THEN /\ ic_pc' = "try"
            /\ UNCHANGED ic_out
       ELSE /\ ic_pc' = "raised"
            /\ ic_out' = ConnectionError("Failed to initialize Qdrant client")
    /\ UNCHANGED <<ic_max_retries, ic_retry_delay, ic_api_key, ic_attempt,
                   ic_attempts, ic_slept, ic_failed_last>>
    /\ UNCHANGED ic_others

\* QdrantClient(**client_kwargs) and client.get_collections() both return
Connect ==
    /\ ic_pc = "try"
    /\ ic_attempts' = ic_attempts + 1
    /\ ic_failed_last' = FALSE
    /\ ic_out' = [client |-> client_kwargs(ic_api_key), attempt |-> ic_attempt]
    /\ ic_pc' = "returned"
    /\ UNCHANGED <<ic_max_retries, ic_retry_delay, ic_api_key, ic_attempt, ic_slept>>
    /\ UNCHANGED ic_others

\* one of them raises (each gives up after its 10 s timeout): the except
\* clause raises ConnectionError on the last attempt, else goes to sleep
ConnectFails ==
    /\ ic_pc = "try"
    /\ ic_attempts' = ic_attempts + 1
    /\ ic_failed_last' = TRUE
    /\ IF last_attempt(ic_attempt, ic_max_retries)
       THEN /\ ic_pc' = "raised"
            /\ ic_out' = ConnectionError("Failed to connect to Qdrant")
       ELSE /\ ic_pc' = "sleep"
            /\ UNCHANGED ic_out
    /\ UNCHANGED <<ic_max_retries, ic_retry_delay, ic_api_key, ic_attempt, ic_slept>>
    /\ UNCHANGED ic_others

\* time.sleep(retry_delay), then the next iteration
RetrySleep ==
    /\ ic_pc = "sleep"
    /\ ic_slept' = ic_slept + ic_retry_delay
    /\ ic_attempt' = ic_attempt + 1
    /\ ic_pc' = "for"
    /\ UNCHANGED <<ic_max_retries, ic_retry_delay, ic_api_key, ic_attempts,
                   ic_failed_last, ic_out>>
    /\ UNCHANGED ic_others

RpIdle ==
    /\ rp_rows = 0
    /\ rp_batch_size = 1
    /\ rp_pc = "idle"
    /\ rp_total = 0
    /\ rp_processed = 0
    /\ rp_handed = <<>>
    /\ rp_fetch_failed = FALSE
    /\ rp_log = None

(***************************************************************************)
(* InstagramEmbeddingPipeline.run_pipeline over SupabaseClient: one action *)
(* for the count and one per iteration of the while loop.  What             *)
(* process_profile does to the collection is the ingestion above; here each *)
(* call is counted and its outcome drawn from those it has.                 *)
(***************************************************************************)
MaxRows == 4

MaxBatchSize == 2

DbOutcomes == {"ok", "error"}

\* get_total_profiles: len(response.data), or 0 when the query raises
get_total_profiles(rows, outcome) == IF outcome = "ok" THEN rows ELSE 0

\* fetch_profiles(batch_size, offset): the rows offset+1 .. offset+batch_size
\* that exist, or [] when the query raises
fetch_profiles(rows, batch_size, offset, outcome) ==
    IF outcome = "ok"
    THEN [k \in 1..Max(0, Min(rows, offset + batch_size) - offset) |-> offset + k]
    ELSE <<>>

RpInit ==
    /\ rp_rows \in 0..MaxRows
    /\ rp_batch_size \in 1..MaxBatchSize
    /\ rp_pc = "count"
    /\ rp_total = 0
    /\ rp_processed = 0
    /\ rp_handed = [r \in 1..rp_rows |-> 0]
    /\ rp_fetch_failed = FALSE
    /\ rp_log = None

\* total = await self.supabase.get_total_profiles(); processed = 0
CountProfiles ==
    /\ rp_pc = "count"
    /\ \E outcome \in DbOutcomes :
        rp_total' = get_total_profiles(rp_rows, outcome)
    /\ rp_pc' = "while"
    /\ UNCHANGED <<rp_rows, rp_batch_size, rp_processed, rp_handed,
                   rp_fetch_failed, rp_log>>
    /\ UNCHANGED rp_others

\* one iteration of `while processed < total`: fetch_profiles, `if not
\* profiles: break`, process_batch, processed += len(profiles), the log line
PipelineBatch ==
    /\ rp_pc = "while"
    /\ rp_processed < rp_total
    /\ \E outcome \in DbOutcomes :
        LET profiles == fetch_profiles(rp_rows, rp_batch_size, rp_processed, outcome)
        IN  /\ rp_fetch_failed' = (rp_fetch_failed \/ outcome = "error")
            /\ IF profiles = <<>>
               THEN /\ rp_pc' = "completed"
                    /\ UNCHANGED <<rp_processed, rp_handed, rp_log>>
               ELSE /\ rp_handed' =
                           [r \in 1..rp_rows |->
                               IF \E k \in 1..Len(profiles) : profiles[k] = r
                               THEN rp_handed[r] + 1 ELSE rp_handed[r]]
                    /\ rp_processed' = rp_processed + Len(profiles)
                    /\ \E successful \in 0..Len(profiles) :
                         \E skipped \in 0..(Len(profiles) - successful) :
                            rp_log' = [successful |-> successful, skipped |-> skipped]
                    /\ UNCHANGED rp_pc
    /\ UNCHANGED <<rp_rows, rp_batch_size, rp_total>>
    /\ UNCHANGED rp_others

\* the loop condition fails: logger.info("Pipeline completed successfully!")
PipelineCompleted ==
    /\ rp_pc = "while"
    /\ ~(rp_processed < rp_total)
    /\ rp_pc' = "completed"
    /\ UNCHANGED <<rp_rows, rp_batch_size, rp_total, rp_processed, rp_handed,
                   rp_fetch_failed, rp_log>>
    /\ UNCHANGED rp_others

UqIdle ==
    /\ uq_updates = <<>>
    /\ uq_index = <<>>
    /\ uq_done = TRUE
    /\ uq_results = <<>>
    /\ uq_written = {}

(***************************************************************************)
(* BatchClassifier.update_qdrant_profiles.  The usernames fit in one chunk *)
(* (chunk_size = 100), so the chunk loop runs once.                        *)
(***************************************************************************)
Usernames == {"ann", "ben", "cy"}

AccountTypes == {"human", "brand"}

\* every dict from some of the usernames to account types
UpdateDicts == UNION {[S -> AccountTypes] : S \in SUBSET Usernames}

\* every order in which the index may return the points S
RECURSIVE OrdersOf(_)
OrdersOf(S) ==
    IF S = {} THEN {<<>>}
    ELSE UNION {{<<u>> \o rest : rest \in OrdersOf(S \ {u})} : u \in S}

\* the dict update_qdrant_profiles returns and the collection it leaves,
\* chunk_results being the points found, in the order the index returns them
update_qdrant_profiles(updates, index, search, chunk_results, set_payload) ==
    LET chunk == DOMAIN updates
        \* the loop over chunk_results: results[username] = True
        found == {chunk_results[k] : k \in 1..Len(chunk_results)} \cap chunk
        \* `username` after the loop: that of the last result
        username == chunk_results[Len(chunk_results)]
    IN  IF search = "error"
        THEN [results |-> [u \in chunk |-> FALSE], index |-> index, written |-> {}]
        ELSE IF found = {}
        THEN [results |-> [u \in chunk |-> FALSE], index |-> index, written |-> {}]
        ELSE IF set_payload = "error"
        THEN [results |-> [u \in chunk |-> FALSE], index |-> index, written |-> {}]
        ELSE [results |-> [u \in chunk |-> u \in found],
              index |-> [u \in DOMAIN index |->
                            IF u \in found
                            THEN [account_type |-> updates[username]]
                            ELSE index[u]],
              written |-> found]

UqInit ==
    /\ uq_done = FALSE
    /\ uq_results = <<>>
    /\ uq_written = {}
    /\ uq_index \in [Usernames -> {None, [account_type |-> "unknown"]}]
    /\ uq_updates \in UpdateDicts

\* update_qdrant_profiles(updates): search with the username filter, one
\* set_payload for the chunk, the not-found loop
UpdateQdrantProfiles ==
    /\ ~uq_done
    /\ \E search \in {"ok", "error"}, set_payload \in {"ok", "error"} :
        \E chunk_results \in
              OrdersOf({u \in DOMAIN uq_updates : uq_index[u] # None}) :
            LET r == update_qdrant_profiles(uq_updates, uq_index, search,
                                            chunk_results, set_payload)
            IN  /\ uq_results' = r.results
                /\ uq_index' = r.index
                /\ uq_written' = r.written
    /\ uq_done' = TRUE
    /\ UNCHANGED uq_updates
    /\ UNCHANGED uq_others

SrIdle ==
    /\ sr_entry = "search_profiles"
    /\ sr_query = "find"
    /\ sr_points = {}
    /\ sr_limit = 0
    /\ sr_done = TRUE
    /\ sr_failed = FALSE
    /\ sr_answer = None

(***************************************************************************)
(* Interactive search: search_profiles (search_api.py) and                 *)
(* BackendHandler.handle_search (backend_server.py).                       *)
(***************************************************************************)
\* QdrantSearcher(top_k=100) of get_cached_components
search_api_top_k == 100

SearchQueries == {"find", "travel"}

\* payload.get(key, default)
payload_get(payload, key, default) ==
    IF payload[key] # None THEN payload[key].some ELSE default

\* the profile dict search_profiles builds from one result
format_profile(result) ==
    [username |-> payload_get(result.payload, "username", ""),
     follower_count |-> payload_get(result.payload, "follower_count", 0),
     category |-> get_follower_category(
                      payload_get(result.payload, "follower_count", 0)),
     account_type |-> payload_get(result.payload, "account_type", "unknown"),
     score |-> result.score]

\* the dict search_profiles returns; embed and index are what embed_query and
\* client.search do
search_profiles(query, points, limit, embed, index) ==
    IF embed = "error" \/ index = "error"
    THEN [error |-> Some("error"), results |-> <<>>, total |-> 0,
          has_more |-> FALSE, query |-> query]
    ELSE LET results == client_search(points, <<>>,
                                      IF limit = 0 THEN search_api_top_k ELSE limit,
                                      0, 0)
             profiles == [k \in 1..Len(results) |-> format_profile(results[k])]
         IN  [error |-> None, results |-> profiles, total |-> Len(profiles),
              has_more |-> Len(profiles) = limit, query |-> query]

\* what process_single_query returns: without an API key, when the LLM has
\* answered, and from its except clause; a key that is absent is None.  No
\* branch has a 'results' key.
process_single_query(backend) ==
    IF backend = "no_api_key"
    THEN [error |-> Some("GOOGLE_API_KEY not found in environment"),
          success |-> None, results |-> None]
    ELSE IF backend = "answered"
    THEN [error |-> None, success |-> Some(TRUE), results |-> None]
    ELSE [error |-> Some("error"), success |-> Some(FALSE), results |-> None]

BackendOutcomes == {"no_api_key", "answered", "exception"}

\* the dict handle_search returns for result = process_single_query(query, [])
handle_search(query, result) ==
    IF /\ result.success = Some(TRUE)
       /\ result.results # None
       /\ result.results # Some(<<>>)
    THEN [error |-> None, results |-> result.results.some,
          total |-> Len(result.results.some), has_more |-> FALSE, query |-> query]
    ELSE [error |-> None, results |-> <<>>, total |-> 0, has_more |-> FALSE,
          query |-> query]

SrInit ==
    /\ sr_entry \in {"search_profiles", "handle_search"}
    /\ sr_query \in SearchQueries
    /\ sr_points \in SUBSET PointPool
    /\ sr_limit \in 0..MaxLimit
    /\ sr_done = FALSE
    /\ sr_failed = FALSE
    /\ sr_answer = None

\* search_profiles(query, limit=limit)
SearchProfiles ==
    /\ ~sr_done
    /\ sr_entry = "search_profiles"
    /\ \E embed \in {"ok", "error"}, index \in {"ok", "error"} :
        /\ sr_failed' = (embed = "error" \/ index = "error")
        /\ sr_answer' = search_profiles(sr_query, sr_points, sr_limit, embed, index)
    /\ sr_done' = TRUE
    /\ UNCHANGED <<sr_entry, sr_query, sr_points, sr_limit>>
    /\ UNCHANGED sr_others

\* handle_search({'query': query})
HandleSearch ==
    /\ ~sr_done
    /\ sr_entry = "handle_search"
    /\ \E backend \in BackendOutcomes :
        /\ sr_failed' = (backend # "answered")
        /\ sr_answer' = handle_search(sr_query, process_single_query(backend))
    /\ sr_done' = TRUE
    /\ UNCHANGED <<sr_entry, sr_query, sr_points, sr_limit>>
    /\ UNCHANGED sr_others

(***************************************************************************)
(* Specifications                                                          *)
(***************************************************************************)
InitWeights == SrIdle /\ UqIdle /\ RpIdle /\ IcIdle /\ FbIdle /\ PrIdle /\ RlIdle /\ FcIdle /\ CtIdle /\ BtIdle /\ IgIdle /\ WaInit /\ FzIdle /\ HsIdle /\ QsIdle

NextWeights == GetWeights

SpecWeights == InitWeights /\ [][NextWeights]_vars

InitFuse == SrIdle /\ UqIdle /\ RpIdle /\ IcIdle /\ FbIdle /\ PrIdle /\ RlIdle /\ FcIdle /\ CtIdle /\ BtIdle /\ IgIdle /\ WaIdle /\ HsIdle /\ QsIdle /\ FzInit

NextFuse == Fuse

SpecFuse == InitFuse /\ [][NextFuse]_vars

InitHybrid == SrIdle /\ UqIdle /\ RpIdle /\ IcIdle /\ FbIdle /\ PrIdle /\ RlIdle /\ FcIdle /\ CtIdle /\ BtIdle /\ IgIdle /\ WaIdle /\ FzIdle /\ QsIdle /\ HsInit

NextHybrid ==
    \/ ValidateImageUrl
    \/ AnalyzeWeights
    \/ ProcessImage
    \/ EmbedText
    \/ CreateHybridVector
    \/ SearchIndex

SpecHybrid == InitHybrid /\ [][NextHybrid]_vars

InitSearch == SrIdle /\ UqIdle /\ RpIdle /\ IcIdle /\ FbIdle /\ PrIdle /\ RlIdle /\ FcIdle /\ CtIdle /\ BtIdle /\ IgIdle /\ WaIdle /\ FzIdle /\ HsIdle /\ QsInit

NextSearch == Search

SpecSearch == InitSearch /\ [][NextSearch]_vars

InitIngest == SrIdle /\ UqIdle /\ RpIdle /\ IcIdle /\ FbIdle /\ PrIdle /\ RlIdle /\ FcIdle /\ CtIdle /\ BtIdle /\ WaIdle /\ FzIdle /\ HsIdle /\ QsIdle /\ IgInit

NextIngest ==
    \E w \in IgWorkers :
        \/ StartProfile(w)
        \/ CheckExists(w)
        \/ Embed(w)
        \/ StoreCheck(w)
        \/ Upsert(w)

SpecIngest == InitIngest /\ [][NextIngest]_vars

InitBatch == SrIdle /\ UqIdle /\ RpIdle /\ IcIdle /\ FbIdle /\ PrIdle /\ RlIdle /\ FcIdle /\ CtIdle /\ WaIdle /\ FzIdle /\ HsIdle /\ QsIdle /\ IgInit /\ BtInit

NextBatch ==
    \/ BatchCall
    \/ CheckExists(BatchWorker)
    \/ Embed(BatchWorker)
    \/ StoreCheck(BatchWorker)
    \/ Upsert(BatchWorker)
    \/ BatchCollect
    \/ BatchReturn

SpecBatch == InitBatch /\ [][NextBatch]_vars

InitParse ==
    SrIdle /\ UqIdle /\ RpIdle /\ IcIdle /\ FbIdle /\ PrIdle /\ RlIdle /\ WaIdle /\ FzIdle /\ HsIdle /\ QsIdle /\ IgIdle /\ BtIdle /\ CtIdle
    /\ FcInit

NextParse == ParseFollowerCount

SpecParse == InitParse /\ [][NextParse]_vars

InitCategory ==
    SrIdle /\ UqIdle /\ RpIdle /\ IcIdle /\ FbIdle /\ PrIdle /\ RlIdle /\ WaIdle /\ FzIdle /\ HsIdle /\ QsIdle /\ IgIdle /\ BtIdle /\ FcIdle
    /\ CtInit

NextCategory == Categorize

SpecCategory == InitCategory /\ [][NextCategory]_vars

InitRate ==
    SrIdle /\ UqIdle /\ RpIdle /\ IcIdle /\ FbIdle /\ PrIdle /\ WaIdle /\ FzIdle /\ HsIdle /\ QsIdle /\ IgIdle /\ BtIdle /\ FcIdle /\ CtIdle
    /\ RlInit

NextRate == Tick \/ CheckRateLimits

SpecRate == InitRate /\ [][NextRate]_vars

AllIdleButDirect ==
    WaIdle /\ FzIdle /\ HsIdle /\ QsIdle /\ IgIdle /\ BtIdle /\ FcIdle /\ CtIdle
    /\ RlIdle

InitFallback == SrIdle /\ UqIdle /\ RpIdle /\ IcIdle /\ AllIdleButDirect /\ PrIdle /\ FbInit

NextFallback == GetFallbackWeights

SpecFallback == InitFallback /\ [][NextFallback]_vars

InitParseWeights == SrIdle /\ UqIdle /\ RpIdle /\ IcIdle /\ AllIdleButDirect /\ FbIdle /\ PrInit

NextParseWeights == ParseGeminiResponse

SpecParseWeights == InitParseWeights /\ [][NextParseWeights]_vars

InitConnect == SrIdle /\ UqIdle /\ RpIdle /\ AllIdleButDirect /\ FbIdle /\ PrIdle /\ IcInit

NextConnect == ForAttempt \/ Connect \/ ConnectFails \/ RetrySleep

SpecConnect == InitConnect /\ [][NextConnect]_vars

\* every step of the loop ends: a connection attempt by its timeout, a sleep
\* after retry_delay seconds
SpecConnectFair == InitConnect /\ [][NextConnect]_vars /\ WF_vars(NextConnect)

InitPipeline == SrIdle /\ UqIdle /\ AllIdleButDirect /\ FbIdle /\ PrIdle /\ IcIdle /\ RpInit

NextPipeline == CountProfiles \/ PipelineBatch \/ PipelineCompleted

SpecPipeline == InitPipeline /\ [][NextPipeline]_vars

InitUpdate == SrIdle /\ AllIdleButDirect /\ FbIdle /\ PrIdle /\ IcIdle /\ RpIdle /\ UqInit

NextUpdate == UpdateQdrantProfiles

SpecUpdate == InitUpdate /\ [][NextUpdate]_vars

InitInteractive ==
    AllIdleButDirect /\ FbIdle /\ PrIdle /\ IcIdle /\ RpIdle /\ UqIdle /\ SrInit

NextInteractive == SearchProfiles \/ HandleSearch

SpecInteractive == InitInteractive /\ [][NextInteractive]_vars

(***************************************************************************)
(* Claims on the weight analyzer                                           *)
(***************************************************************************)
WeightPairInvariant(w) ==
    /\ 0 <= w.image_weight /\ w.image_weight <= One
    /\ 0 <= w.text_weight /\ w.text_weight <= One
    /\ ~ExceedsTol(QuantDist(w.image_weight), QuantRounding(w.image_weight))
    /\ ~ExceedsTol(QuantDist(w.text_weight), QuantRounding(w.text_weight))
    /\ BelowTol(SumDist(w.image_weight, w.text_weight),
                SumRounding(w.image_weight, w.text_weight))

\* C1: every weight pair get_weights returns, from whichever tier and for
\* whatever LLM answer, has both weights in [0, 1], both multiples of 0.1
\* within 0.001, and a sum within 0.001 of 1.0
C1_ReturnedWeightsValid == wa_called => WeightPairInvariant(wa_result)

\* the LLM answered with a pair that fails validation and a pair was returned
C1_Witness ==
    /\ wa_called
    /\ wa_response.called /\ ~wa_response.raised
    /\ ~WeightPairInvariant(_parse_gemini_response(wa_response.text))

VeryHighImageIntent(query) ==
    \/ \E p \in 1..Len(check_very_high_image_phrases) :
           Contains(lower(query), check_very_high_image_phrases[p])
    \/ Cardinality({k \in 1..Len(high_image_keywords) :
                       Contains(lower(query), high_image_keywords[k])}) >= 2

\* C2: a query that contains a very-high-image-intent phrase, or two or more
\* distinct high-image keywords, gets exactly (0.9, 0.1) from the override,
\* with no LLM call and no keyword fallback, with or without an LLM configured
C2_OverridePriority ==
    (wa_called /\ VeryHighImageIntent(wa_query)) =>
        /\ wa_result = Weights(900, 100)
        /\ wa_path = "override"
        /\ wa_llmCalls = 0
        /\ wa_fallbackRuns = 0

\* "... Looks Like This ..." with an LLM configured: the override answered
C2_Witness ==
    /\ wa_called /\ wa_hasKey
    /\ Contains(wa_query, <<"L","o","o","k","s"," ","L","i","k","e">>)
    /\ wa_result = Weights(900, 100)
    /\ wa_llmCalls = 0

\* two high-image keywords and no phrase, no LLM configured
C2_WitnessKeywords ==
    /\ wa_called /\ ~wa_hasKey
    /\ wa_query = <<"m","a","t","c","h","i","n","g"," ","s","t","y","l","e">>
    /\ wa_result = Weights(900, 100)

(***************************************************************************)
(* Claims on fuse                                                          *)
(***************************************************************************)
\* C3: for equal-length vectors and an accepted weight pair the result has
\* the same length and result[i] = image_weight * image_vec[i] + text_weight
\* * text_vec[i], not re-normalized; weights (1.0, 0.0) give the image
\* vector and (0.0, 1.0) the text vector
C3_FuseIsWeightedSum ==
    (fz_done /\ ~fz_out.raised) =>
        /\ Len(fz_image) = Len(fz_text)
        /\ Len(fz_out.vector) = Len(fz_image)
        /\ \A i \in 1..Len(fz_image) :
               fz_out.vector[i] = fz_weights.image_weight * fz_image[i]
                                  + fz_weights.text_weight * fz_text[i]
        /\ fz_weights = Weights(One, 0) =>
               \A i \in 1..Len(fz_image) : fz_out.vector[i] = One * fz_image[i]
        /\ fz_weights = Weights(0, One) =>
               \A i \in 1..Len(fz_text) : fz_out.vector[i] = One * fz_text[i]

\* weights (1.0, 0.0) on two different vectors of the full dimension
C3_Witness ==
    /\ fz_done /\ ~fz_out.raised
    /\ fz_weights = Weights(One, 0)
    /\ Len(fz_image) = MaxDim
    /\ fz_image # fz_text

\* C4 as claimed: fuse rejects every weight pair that violates any Weight
\* Pair invariant (range, 0.1 quantization, sum)
C4_RejectsEveryInvalidPair ==
    (fz_done /\ ~WeightPairInvariant(fz_weights)) =>
        (fz_out.raised /\ fz_out.vector = <<>>)

\* C4 amended: fuse rejects, with an error and no vector, every weight pair
\* whose sum is not within 0.001 of 1.0; range and quantization are not
\* checked, so a pair such as (1.5, -0.5) or (0.25, 0.75) is fused
C4_RejectsBadSum ==
    /\ (fz_done /\ ~BelowTol(SumDist(fz_weights.image_weight, fz_weights.text_weight),
                             SumRounding(fz_weights.image_weight, fz_weights.text_weight)))
           => (fz_out.raised /\ fz_out.vector = <<>>)
    /\ (fz_done /\ Len(fz_image) = Len(fz_text)
          /\ BelowTol(SumDist(fz_weights.image_weight, fz_weights.text_weight),
                      SumRounding(fz_weights.image_weight, fz_weights.text_weight)))
           => ~fz_out.raised

\* equal lengths, weights summing to 1.1: rejected with the sum error
C4_Witness ==
    /\ fz_done
    /\ Len(fz_image) = Len(fz_text)
    /\ fz_weights.image_weight + fz_weights.text_weight # One
    /\ fz_out = Raise(SumError)

\* C5: vectors of different lengths always end in the dimension error and
\* no vector; neither input is truncated or padded
C5_MismatchRejected ==
    (fz_done /\ Len(fz_image) # Len(fz_text)) =>
        fz_out = Raise(DimensionError)

\* different lengths with a valid weight pair
C5_Witness ==
    /\ fz_done
    /\ Len(fz_image) = 1 /\ Len(fz_text) = 2
    /\ fz_weights = Weights(500, 500)
    /\ fz_out.raised

(***************************************************************************)
(* Claims on the hybrid search                                             *)
(***************************************************************************)
HsDid(step) == \E i \in 1..Len(hs_steps) : hs_steps[i] = step

\* every occurrence of step b comes after an occurrence of step a
HsBefore(a, b) ==
    \A i \in 1..Len(hs_steps) :
        hs_steps[i] = b => \E j \in 1..(i - 1) : hs_steps[j] = a

HsImageFailed ==
    \/ hs_head \in HeadOutcomes \ {"image"}
    \/ hs_fetch \in FetchOutcomes \ {"ok"}

HsClearImageError ==
    /\ hs_out # None
    /\ hs_out.error
    /\ \/ hs_out.text = InvalidUrlMessage
       \/ hs_out.cause = ImageError

\* C6: fusion starts only after weight inference has returned and both
\* embeddings have been obtained; when the image URL is invalid or the image
\* cannot be fetched or embedded, the search ends with an image error and
\* neither fusion nor the index query is executed
C6_FusionAfterInputs ==
    /\ HsBefore("weights", "fuse")
    /\ HsBefore("image", "fuse")
    /\ HsBefore("text", "fuse")
    /\ HsDid("fuse") =>
          (hs_weights # None /\ hs_image_embedding # None /\ hs_text_embedding # None)
    /\ HsImageFailed =>
          /\ ~HsDid("fuse")
          /\ ~HsDid("query")
          /\ hs_pc = "done"
          /\ HsClearImageError

\* the URL passed validation, then the download failed inside search()
C6_Witness ==
    /\ hs_pc = "done"
    /\ hs_head = "image"
    /\ hs_fetch = "download_exception"
    /\ hs_weights # None
    /\ hs_out.cause = ImageError

\* a request that reached fusion
C6_WitnessFused == HsDid("fuse") /\ hs_hybrid_vector # None

\* C7: when weight inference and both embeddings succeed and the index is
\* reachable, search() queries the index with the fused vector and returns
\* the ranked results with the weights used; it does not end in an error
C7_SearchReturnsResults ==
    (/\ hs_pc = "done"
     /\ hs_weights # None
     /\ hs_image_embedding # None
     /\ hs_text_embedding # None
     /\ hs_indexUp)
        => (/\ ~hs_search.raised
            /\ hs_search.results \in HsResultLists
            /\ hs_search.weights = hs_weights
            /\ ~hs_out.error)

(***************************************************************************)
(* Claims on QdrantSearcher.search                                         *)
(***************************************************************************)
QsReturned == qs_done /\ ~qs_out.raised

\* C8: the supplied filters are applied as a conjunction: every result has
\* follower_count >= min and, when max is given, follower_count < max,
\* account_type equal to the requested value and username equal to the
\* requested value, for every filter that was supplied
C8_FiltersAreConjunction ==
    QsReturned =>
        \A i \in 1..Len(qs_out.results) :
            LET payload == qs_out.results[i].payload
            IN  /\ qs_filters.follower_count # None =>
                      /\ payload.follower_count # None
                      /\ payload.follower_count.some >= qs_filters.follower_count.some.min
                      /\ qs_filters.follower_count.some.max # None =>
                             payload.follower_count.some
                                 < qs_filters.follower_count.some.max.some
                /\ qs_filters.account_type # None =>
                      payload.account_type = qs_filters.account_type
                /\ qs_filters.username # None =>
                      payload.username = qs_filters.username

\* all three filters supplied, more than one point stored, one result
C8_Witness ==
    /\ QsReturned
    /\ qs_points = PointPool
    /\ qs_filters.follower_count = Some([min |-> 10, max |-> Some(100)])
    /\ qs_filters.account_type # None
    /\ qs_filters.username # None
    /\ Len(qs_out.results) = 1

\* C9: with an explicit limit n >= 0 the number of results never exceeds n,
\* and no result has a score below score_threshold
C9_LimitAndThreshold ==
    (QsReturned /\ qs_limit # None) =>
        /\ Len(qs_out.results) <= qs_limit.some
        /\ \A i \in 1..Len(qs_out.results) :
               qs_out.results[i].score >= qs_score_threshold

(***************************************************************************)
(* Claims on the ingestion                                                 *)
(***************************************************************************)
\* C10: a run with skip_existing=True for a profile_id that is already
\* stored reports the profile as skipped and issues no upsert, so the stored
\* vector and payload stay as they are; a run that stores a profile stores
\* id = profile_id with a payload containing username and user_id
C10_RerunSkipsAndKeeps ==
    \A w \in IgWorkers :
        /\ (IgReturned(w) /\ ig_skip[w] /\ ig_before[w] # None) =>
              /\ ig_result[w] = Skipped(ig_profile[w].user_id)
              /\ ~ig_upserted[w]
        /\ (IgReturned(w) /\ ig_result[w] = Processed(ig_profile[w].user_id)) =>
              /\ ig_points[ig_profile[w].user_id] # None
              /\ ig_points[ig_profile[w].user_id].payload.user_id
                     = ig_profile[w].user_id
              /\ {"username", "user_id"}
                     \subseteq DOMAIN ig_points[ig_profile[w].user_id].payload

\* C11: a run of process_profile ends in one terminal outcome; it reports
\* the profile as skipped only directly after the existence check, never
\* after the embedding has been performed, and reports it done only after
\* its vector has been upserted
C11_SkipOnlyAfterCheck ==
    \A w \in IgWorkers :
        IgReturned(w) =>
            /\ ig_result[w] \in {None, Skipped(ig_profile[w].user_id),
                                 Processed(ig_profile[w].user_id)}
            /\ (ig_result[w] = Skipped(ig_profile[w].user_id)) =>
                   ig_embedding[w] = None
            /\ (ig_result[w] = Processed(ig_profile[w].user_id)) =>
                   /\ ig_upserted[w]
                   /\ ig_points[ig_profile[w].user_id] # None

\* the runs of w1 and w2 overlapped on one profile_id that was not stored
\* when either of them started
IgConcurrent(w1, w2) ==
    /\ w1 # w2
    /\ IgReturned(w1) /\ IgReturned(w2)
    /\ ig_profile[w1].user_id = ig_profile[w2].user_id
    /\ ig_skip[w1] /\ ig_skip[w2]
    /\ ig_before[w1] = None /\ ig_before[w2] = None

\* C13: of two workers that process the same profile_id concurrently with
\* skip_existing=True, at most one upserts the record
C13_AtMostOneUpserts ==
    \A w1, w2 \in IgWorkers :
        IgConcurrent(w1, w2) =>
            ~(/\ ig_result[w1] = Processed(ig_profile[w1].user_id)
              /\ ig_result[w2] = Processed(ig_profile[w2].user_id))

(***************************************************************************)
(* Claims on process_batch                                                 *)
(***************************************************************************)
RECURSIVE WithoutNone(_)
WithoutNone(outcomes) ==
    IF outcomes = <<>> THEN <<>>
    ELSE IF Head(outcomes) = None THEN WithoutNone(Tail(outcomes))
    ELSE <<Head(outcomes)>> \o WithoutNone(Tail(outcomes))

\* C12: whatever profiles of a batch fail, process_batch calls
\* process_profile for every profile of the batch in order, returns, and
\* returns exactly the outcomes of the profiles that did not fail
C12_BatchToleratesFailures ==
    /\ Len(bt_outcomes) <= Len(bt_profiles)
    /\ \A i \in 1..Len(bt_outcomes) :
           bt_outcomes[i] # None =>
               bt_outcomes[i].profile_id = bt_profiles[i].user_id
    /\ bt_results = WithoutNone(bt_outcomes)
    /\ bt_pc = "returned" => Len(bt_outcomes) = Len(bt_profiles)
    /\ (bt_pc = "loop" /\ bt_i < Len(bt_profiles)) => ENABLED BatchCall

\* a batch whose first profile failed and whose second was stored
C12_Witness ==
    /\ bt_pc = "returned"
    /\ Len(bt_profiles) = 2
    /\ bt_outcomes[1] = None
    /\ bt_results = <<Processed(bt_profiles[2].user_id)>>

(***************************************************************************)
(* Claims on the error handling of get_weights                             *)
(***************************************************************************)
\* C14: when the pair parsed from the LLM response violates the weight pair
\* invariants, get_weights signals the error to its caller and returns no
\* weight pair
C14_InvalidPairIsFatal ==
    (/\ wa_called
     /\ wa_response.called /\ ~wa_response.raised
     /\ ~WeightPairInvariant(_parse_gemini_response(wa_response.text)))
        => wa_result = None

\* C15: for a query without the override, with no LLM configured or with a
\* failing LLM call, get_weights returns get_fallback_weights(query), and
\* with no LLM configured it attempts no LLM call
C15_FallbackOnNoKeyOrFailure ==
    (/\ wa_called
     /\ ~VeryHighImageIntent(wa_query)
     /\ (~wa_hasKey \/ wa_response.raised))
        => /\ wa_result = get_fallback_weights(wa_query)
           /\ wa_result # None
           /\ wa_fallbackRuns = 1
           /\ ~wa_hasKey => (wa_llmCalls = 0 /\ ~wa_response.called)

\* the LLM call failed for a query whose fallback pair is not the even split
C15_Witness ==
    /\ wa_called /\ wa_hasKey
    /\ wa_response.called /\ wa_response.raised
    /\ wa_result = get_fallback_weights(wa_query)
    /\ wa_result # Weights(500, 500)

\* no LLM configured, no override
C15_WitnessNoKey ==
    /\ wa_called /\ ~wa_hasKey
    /\ ~VeryHighImageIntent(wa_query)
    /\ wa_path = "no_key"

(***************************************************************************)
(* Claims on the follower counts                                           *)
(***************************************************************************)
\* C16: parse_follower_count never raises: it returns an integer or null,
\* and null for every input that is not a count
C16_ParseNeverRaises ==
    fc_done =>
        /\ ~fc_out.raised
        /\ fc_text \in {<<>>, <<"i","n","v","a","l","i","d">>,
                        <<"K"," ","f","o","l","l","o","w","e","r","s">>,
                        <<"1",".","5",".","K">>, <<"i","n","f">>,
                        <<"1","e","4","0","0">>}
               => fc_out.value = None

\* the number of a count text, as its digits and the digits after the point
NumberOf(text) == follower_match(SelectSeq(upper(text), LAMBDA c :
                      c \in DOMAIN DigitValue \cup DOMAIN MULTIPLIERS \cup {"."}))

\* C17: for a number n with an optional unit, optional noise and
\* surrounding whitespace, parse_follower_count returns the integer part of
\* n * multiplier
C17_ParseIsExact ==
    (fc_done /\ fc_text \in CountTexts) =>
        /\ ~fc_out.raised
        /\ fc_out.value =
              IntValue(int_of_decimal(NumberOf(fc_text).mant,
                  NumberOf(fc_text).scale,
                  IF NumberOf(fc_text).unit = None THEN 0
                  ELSE MULTIPLIERS[NumberOf(fc_text).unit.some]))

\* C18: get_follower_category is exact at every threshold
C18_CategoryBoundaries ==
    ct_done =>
        /\ ct_count < 1000 => ct_category = Some(CategoryNone)
        /\ (1000 <= ct_count /\ ct_count < 10000) =>
               ct_category = Some(CategoryNano)
        /\ (10000 <= ct_count /\ ct_count < 100000) =>
               ct_category = Some(CategoryMicro)
        /\ (100000 <= ct_count /\ ct_count < 1000000) =>
               ct_category = Some(CategoryMacro)
        /\ ct_count >= 1000000 => ct_category = Some(CategoryMega)

\* a count on a threshold
C18_Witness ==
    /\ ct_done
    /\ ct_count = 10000
    /\ ct_category = Some(CategoryMicro)

\* C19: for every count c >= 0 the range of c's category contains c, min <=
\* c < max with mega's max unbounded, and a name that is not a defined
\* category maps to (0, 0)
C19_RangeInvertsCategory ==
    ct_done =>
        /\ ct_count >= 0 =>
              /\ ct_range.min <= ct_count
              /\ ct_range.max = Infinity \/ ct_count < ct_range.max.some
        /\ lower(ct_name) \notin {CategoryNone, CategoryNano, CategoryMicro,
                                  CategoryMacro, CategoryMega}
               => ct_named_range = Range(0, Some(0))

(***************************************************************************)
(* Claims on the rate limiter                                              *)
(***************************************************************************)
\* the latest call met the per-minute ceiling, was held until the window's
\* 60 seconds had elapsed, then opened a new window and was counted in it
RlHeldThenAdmitted ==
    /\ ~rl_last.raised
    /\ rl_last.entered + rl_last.slept >= rl_last.window_start + MinuteWindow
    /\ rl_minute_start = rl_last.entered + rl_last.slept
    /\ rl_requests_per_minute = 1
    /\ rl_requests_per_day = rl_last.day_before + 1

\* C20: a request that meets the per-minute ceiling is neither dropped nor
\* failed: the limiter sleeps until the window's 60 seconds have elapsed,
\* starts a new window, admits the request and counts it
C20_CeilingBlocksThenAdmits ==
    (rl_last # None /\ rl_last.ceiling) => RlHeldThenAdmitted

\* C20 as the code has it: the same, for a request that meets the
\* per-minute ceiling while the per-day ceiling has not been reached
C20_CeilingBlocksBelowDayLimit ==
    (rl_last # None /\ rl_last.ceiling /\ ~rl_last.day_ceiling)
        => RlHeldThenAdmitted

\* the eleventh request of a window was held for the rest of the window
C20_Witness ==
    /\ rl_last # None
    /\ rl_last.ceiling /\ ~rl_last.day_ceiling
    /\ rl_last.slept >= 30
    /\ ~rl_last.raised
    /\ rl_requests_per_minute = 1

(***************************************************************************)
(* Claims on get_fallback_weights and _parse_gemini_response               *)
(***************************************************************************)
\* the number of keywords of a tier the case-folded query contains
TierScore(keywords, query) ==
    Cardinality({k \in 1..Len(keywords) : Contains(lower(query), keywords[k])})

\* the image weight of the three-tier rule, in thousandths
TierWeight(query) ==
    IF TierScore(high_image_keywords, query) > 0
    THEN Min(800, 600 + 100 * TierScore(high_image_keywords, query))
    ELSE IF TierScore(medium_image_keywords, query) > 0
    THEN Min(600, 400 + 100 * TierScore(medium_image_keywords, query))
    ELSE Max(100, 300 - 100 * TierScore(text_keywords, query))

HasFallbackPhrase(query) ==
    \E p \in 1..Len(fallback_very_high_image_phrases) :
        Contains(lower(query), fallback_very_high_image_phrases[p])

\* C24: for every query get_fallback_weights returns the image weight of
\* the three-tier rule, with text_weight = 1 - image_weight
C24_FallbackIsTierRule ==
    fb_weights # None =>
        fb_weights = Weights(TierWeight(fb_query), One - TierWeight(fb_query))

\* C24 as the code has it: the three-tier rule for every query that
\* contains none of the six very-high-image phrases of get_fallback_weights,
\* and (0.9, 0.1) for a query that contains one
C24_FallbackIsTierRuleAfterPhrases ==
    fb_weights # None =>
        IF HasFallbackPhrase(fb_query) THEN fb_weights = Weights(900, 100)
        ELSE fb_weights = Weights(TierWeight(fb_query), One - TierWeight(fb_query))

\* a medium-tier query: "based on" gives (0.5, 0.5)
C24_Witness ==
    /\ fb_query = <<"b","a","s","e","d"," ","o","n">>
    /\ fb_weights = Weights(500, 500)

\* C26: for every query with one of the thirteen phrases of
\* _check_very_high_image_intent, or with two or more high-image keywords,
\* get_fallback_weights called directly returns (0.9, 0.1)
C26_FallbackAgreesWithOverride ==
    (fb_weights # None /\ VeryHighImageIntent(fb_query))
        => fb_weights = Weights(900, 100)

IsDec(tok) == tok.t = "dec"

\* the tokens at i..i+4 are image_weight: X.X , text_weight: Y.Y
PatternFrom(response, i) ==
    /\ i + 4 <= Len(response)
    /\ response[i].t = "image_weight:" /\ IsDec(response[i + 1])
    /\ response[i + 2].t = "," /\ response[i + 3].t = "text_weight:"
    /\ IsDec(response[i + 4])

\* C25: the pair is that of the pattern if the response contains it (the
\* first occurrence); otherwise the first two decimal numbers in order if
\* there are at least two; otherwise (0.5, 0.5); the parser always returns
C25_ParseIsThreeStep ==
    pr_weights # None =>
        LET decimals == SelectSeq(pr_response, IsDec)
            hits == {i \in 1..Len(pr_response) : PatternFrom(pr_response, i)}
        IN  IF hits # {}
            THEN \E i \in hits :
                    /\ \A j \in hits : i <= j
                    /\ pr_weights = Weights(pr_response[i + 1].v,
                                            pr_response[i + 4].v)
            ELSE IF Len(decimals) >= 2
            THEN pr_weights = Weights(decimals[1].v, decimals[2].v)
            ELSE pr_weights = Weights(500, 500)

\* a decimal before the pattern: the pattern wins
C25_Witness ==
    /\ pr_response = <<Dec(300), Tok("image_weight:"), Dec(700), Tok(","),
                       Tok("text_weight:"), Dec(300)>>
    /\ pr_weights = Weights(700, 300)

(***************************************************************************)
(* Claims on the limiter as _classify_with_gemini uses it                  *)
(***************************************************************************)
\* what a call that was not stopped by the daily ceiling can return
ClassificationOutcomes == {"human", "brand", "unknown"}

\* C21: a call that meets the daily ceiling fails at once, without sleeping
\* and without calling the LLM, and what reaches the caller differs from
\* every other outcome of a classification
C21_QuotaFailureIsDistinct ==
    (rl_last # None /\ rl_last.day_ceiling) =>
        /\ rl_last.raised
        /\ rl_last.slept = 0
        /\ Len(rl_admitted) = rl_llm_calls + (IF RlStarted = 0 THEN 0 ELSE 1)
        /\ rl_result \notin ClassificationOutcomes

\* C22: of the admitted calls, no max_rpm + 1 fall within 60 seconds
C22_MinuteWindowNeverExceeded ==
    \A i \in 1..Len(rl_admitted) :
        i + max_rpm <= Len(rl_admitted) =>
            rl_admitted[i + max_rpm] - rl_admitted[i] >= MinuteWindow


(***************************************************************************)
(* Claims on the existence check of the ingestion                         *)
(***************************************************************************)
\* C28: with skip_existing=True a run that found its profile stored when it
\* began never issues an upsert for it, whatever the existence query does
C28_StoredNeverUpsertedAgain ==
    [][\A w \in IgWorkers :
          (ig_skip[w] /\ ig_before[w] # None /\ ~ig_upserted[w])
              => ~ig_upserted'[w]]_vars


(***************************************************************************)
(* Claims on _initialize_client                                            *)
(***************************************************************************)
IcEnded == ic_pc \in {"returned", "raised"}

\* what holds of the retry loop at every moment
IcBounded ==
    /\ ic_attempts <= ic_max_retries
    /\ ic_pc = "returned" =>
          /\ ic_out = [client |-> client_kwargs(ic_api_key),
                       attempt |-> ic_attempts - 1]
          /\ ~ic_failed_last
          /\ ic_slept = ic_retry_delay * (ic_attempts - 1)
    /\ ic_pc = "raised" =>
          /\ ic_out.exception = "ConnectionError"
          /\ ic_attempts = ic_max_retries
          /\ ic_slept = ic_retry_delay * Max(0, ic_max_retries - 1)
    /\ ic_pc \in {"for", "try"} => ic_slept = ic_retry_delay * ic_attempts

\* C27: at most max_retries attempts are made; the client returned is that
\* of the first attempt that succeeds; retry_delay is waited between a failed
\* attempt and the next one, and not after the last; ConnectionError is
\* raised once max_retries attempts have failed; and the call ends for every
\* max_retries >= 0
C27_RetriesBoundedAndEnd == []IcBounded /\ <>IcEnded

\* four failures, each followed by a wait, and a fifth attempt that succeeds
C27_Witness ==
    /\ ic_pc = "returned"
    /\ ic_max_retries = MaxRetries
    /\ ic_attempts = MaxRetries
    /\ ic_slept = ic_retry_delay * (MaxRetries - 1)

\* no attempt is allowed: ConnectionError without any attempt
C27_WitnessNoRetries ==
    /\ ic_pc = "raised"
    /\ ic_max_retries = 0
    /\ ic_attempts = 0


(***************************************************************************)
(* Claims on run_pipeline                                                  *)
(***************************************************************************)
\* C29: run_pipeline reports successful completion only after every counted
\* profile has been handed to process_profile exactly once, processed having
\* reached total; a failed batch fetch is not taken for the end of the data
C29_CompletedMeansAllProcessed ==
    rp_pc = "completed" =>
        /\ rp_processed = rp_total
        /\ \A r \in 1..rp_total : rp_handed[r] = 1


(***************************************************************************)
(* Claims on update_qdrant_profiles                                        *)
(***************************************************************************)
\* C30: after update_qdrant_profiles(updates) every profile that was written
\* has account_type = updates[its own username], and the usernames reported
\* successful are exactly those written with their own value
C30_EachProfileGetsOwnType ==
    (uq_done /\ DOMAIN uq_updates # {}) =>
        /\ \A u \in uq_written : uq_index[u].account_type = uq_updates[u]
        /\ \A u \in DOMAIN uq_updates :
              uq_results[u] <=>
                  (u \in uq_written /\ uq_index[u].account_type = uq_updates[u])


(***************************************************************************)
(* Claims on the interactive search                                        *)
(***************************************************************************)
\* C23: a request whose embedding or index query fails is answered with an
\* error indication and no results, and an answer without an error
\* indication, an empty result list included, comes only from a search that
\* succeeded
C23_ErrorOrResults ==
    sr_done =>
        /\ sr_failed => (sr_answer.error # None /\ sr_answer.results = <<>>)
        /\ sr_answer.error = None => ~sr_failed

====
